---- MODULE Spec2Model ----
\* sim-logger: the asynchronous delivery pipeline (AsyncSink), its bounded
\* ring-buffer queue (MutexRingBufferQueue) and the threads that use them;
\* the Logger hierarchy and the LoggerRegistry.
\*
\* Threads: producers call AsyncSink::write, flushers call AsyncSink::flush,
\* one worker runs AsyncSink::worker_loop_, one owner runs ~AsyncSink.
\* Every critical section of the queue mutex m_ is one action; the flush
\* mutex flush_m is modelled explicitly because the worker's shutdown path
\* notifies flush_cv without taking it.
EXTENDS Integers, Sequences, FiniteSets, TLC

\* ---------------------------------------------------------------- bounds
MaxCapacity == 2
MaxBatch == 2
MaxWrites == 2
MaxFlushes == 1
MaxStopCalls == 2
MaxCalls == 3

Producers == {"p1", "p2"}
Flushers == {"f1", "f2"}
Worker == "w"
Owner == "o"

Block == "Block"
DropNewest == "DropNewest"
DropOldest == "DropOldest"
OverflowPolicy == {Block, DropNewest, DropOldest}

\* An empty std::optional<LogRecord> slot; a record is <<producer, k>>.
NoRecord == <<>>

NoThread == "none"

VARIABLES
  \* AsyncOptions (after the constructor's normalisation) and the wrapped sink
  capacity, policy, max_batch, wrapped_throws,
  \* how many write(), flush() and request_stop_() calls each thread makes
  calls,
  \* MutexRingBufferQueue
  buffer, head, tail, count, q_stop_requested, flush_kick,
  \* threads blocked in a condition_variable wait that have been notified
  notified,
  \* AsyncSink
  stop_requested, flush_request_gen, flush_done_gen,
  dropped_records_count, sink_failures_count, flush_m,
  \* worker_loop_ locals and position
  wpc, batch, last_seen_flush_gen, want,
  \* producers: position in write(), number of write() calls begun, enqueue result
  ppc, nwrites, res,
  \* flushers: position in flush(), local gen, number of flush() calls begun
  fpc, gen, nflushes,
  \* owner: position in ~AsyncSink / request_stop_, number of request_stop_ calls
  opc, nstops,
  \* wrapped sink: records passed to write(), how many of them a later flush()
  \* covers, and what flush_request_gen_ was when its latest flush() began
  delivered, flushed_upto, gen_at_wrapped_flush,
  \* history: records pushed, records evicted, and per flusher the records
  \* pushed before its current flush() call began
  enqueued, evicted, snap,
  \* LoggerRegistry: loggers_ (name -> Logger), the number of Logger objects
  \* constructed so far, and the Loggers a client holds a shared_ptr to
  loggers_, nloggers, held,
  \* Logger fields, one function over the Logger objects each
  name_, level_, level_overridden_, sinks_, sinks_overridden_, parent_,
  immediate_flush_, immediate_flush_overridden_,
  logger_dropped_records_count, logger_sink_failures_count,
  \* the sinks given to loggers: which of their calls throw, and the calls made
  sink_throws, sink_calls,
  \* threads in Logger::log: position, the logger, the record, the locals
  \* sinks (what is left of it) and do_flush, number of log() calls begun
  lpc, lself, lrec, lsinks, do_flush, nlogs,
  \* number of registry and logger calls made so far
  ncalls,
  \* history: the Logger objects get_or_create_locked_ constructed and the
  \* ones get_logger returned, each with the name asked for and the number of
  \* clear() calls before it; per log() call what it resolved
  nclears, created, returned, resolved,
  \* LoggerRegistry::mutex_ and Logger::mutex_: the thread that holds each
  registry_mutex, mutex_,
  \* threads calling into the registry and the loggers, one lock at a time:
  \* position, the function called, the effective_* function being
  \* evaluated, the Logger about to be locked or written, the Loggers whose
  \* lock_guard is on the thread's stack (innermost last), the locals of
  \* get_logger, and the number of calls begun
  cpc, cop, cwalk, cur, guards, gl, nlockcalls

cfgvars == <<capacity, policy, max_batch, wrapped_throws, calls>>
qvars == <<buffer, head, tail, count>>
qflags == <<q_stop_requested, flush_kick>>
genvars == <<flush_request_gen, flush_done_gen>>
cntvars == <<dropped_records_count, sink_failures_count>>
wvars == <<wpc, batch, last_seen_flush_gen, want>>
pvars == <<ppc, nwrites, res>>
fvars == <<fpc, gen, nflushes, snap>>
ovars == <<opc, nstops, stop_requested>>
sinkvars == <<delivered, flushed_upto, gen_at_wrapped_flush>>
histvars == <<enqueued, evicted>>

pipelinevars ==
  <<cfgvars, qvars, qflags, notified, genvars, cntvars, flush_m, wvars,
    pvars, fvars, ovars, sinkvars, histvars>>

registryvars == <<loggers_, nloggers, held>>
levelvars == <<level_, level_overridden_>>
sinksvars == <<sinks_, sinks_overridden_>>
flushvars == <<immediate_flush_, immediate_flush_overridden_>>
statvars == <<logger_dropped_records_count, logger_sink_failures_count>>
logvars == <<lpc, lself, lrec, lsinks, do_flush, nlogs>>
loghistvars == <<nclears, created, returned, resolved>>

mutexvars == <<registry_mutex, mutex_>>
callvars == <<cpc, cop, cwalk, cur, guards, gl, nlockcalls>>
lockvars == <<mutexvars, callvars>>

loggervars ==
  <<registryvars, name_, parent_, levelvars, sinksvars, flushvars, statvars,
    sink_throws, sink_calls, logvars, ncalls, loghistvars, lockvars>>

vars == <<pipelinevars, loggervars>>

\* ------------------------------------------------- AsyncSink constructor
\* capacity == 0 and max_batch == 0 are replaced by 1.
NormalizeOption(n) == IF n = 0 THEN 1 ELSE n

\* ------------------------------------------------- MutexRingBufferQueue
\* The ring as a value, so that the private helpers compose as in the code.
Ring == [buffer |-> buffer, head |-> head, tail |-> tail, count |-> count]

SetRing(q) ==
  /\ buffer' = q.buffer
  /\ head' = q.head
  /\ tail' = q.tail
  /\ count' = q.count

\* Mutant: tail_ is advanced without wrapping around.
push_unlocked_no_wrap(q, r) ==
  [q EXCEPT !.buffer[q.tail] = r,
            !.tail = q.tail + 1,
            !.count = q.count + 1]

push_unlocked_(q, r) ==
  [q EXCEPT !.buffer[q.tail] = r,
            !.tail = (q.tail + 1) % capacity,
            !.count = q.count + 1]

\* Mutant: the newest record is removed instead of the oldest.
pop_newest_unlocked_(q) ==
  LET last == (q.tail + capacity - 1) % capacity
  IN  [q EXCEPT !.buffer[last] = NoRecord,
                !.tail = last,
                !.count = q.count - 1]

pop_oldest_unlocked_(q) ==
  [q EXCEPT !.buffer[q.head] = NoRecord,
            !.head = (q.head + 1) % capacity,
            !.count = q.count - 1]

\* The queued records, oldest first.
Contents(q) == [i \in 1..q.count |-> q.buffer[(q.head + i - 1) % capacity]]

\* dequeue_batch's loop: n times move *buffer_[head_] to out and advance head_.
RECURSIVE DequeueLoop(_, _, _)
DequeueLoop(q, out, n) ==
  IF n = 0 THEN [q |-> q, out |-> out]
  ELSE DequeueLoop([q EXCEPT !.buffer[q.head] = NoRecord,
                             !.head = (q.head + 1) % capacity,
                             !.count = q.count - 1],
                   Append(out, q.buffer[q.head]),
                   n - 1)

\* Mutant: the records of a batch are appended newest first.
dequeue_batch_newest_first(q, out, max) ==
  LET n == IF q.count < max THEN q.count ELSE max
      d == DequeueLoop(q, <<>>, n)
  IN  [q |-> d.q, out |-> out \o [i \in 1..n |-> d.out[n + 1 - i]]]

dequeue_batch(q, out, max) ==
  LET n == IF q.count < max THEN q.count ELSE max
  IN  DequeueLoop(q, out, n)

EnqueueResult(e, d) == [enqueued |-> e, dropped |-> d]
NoResult == [enqueued |-> FALSE, dropped |-> 0]

\* Threads blocked on each condition variable.
WaitingNotEmpty == IF wpc = "waiting" THEN {Worker} ELSE {}
WaitingNotFull == {p \in Producers : ppc[p] = "blocked"}
WaitingFlushCv == {f \in Flushers : fpc[f] = "waiting"}

\* notify_all wakes every waiter; notify_one wakes one waiter if there is any.
\* Both give the set of threads the call wakes.
notify_all(waiters) == {waiters}
notify_one(waiters) == IF waiters = {} THEN {{}} ELSE {{t} : t \in waiters}

\* Mutant: a full queue rejects the record instead of making the caller wait.
enqueue_block_rejects(q, r) ==
  IF q_stop_requested
  THEN [ring |-> q, res |-> EnqueueResult(FALSE, 0), wait |-> FALSE]
  ELSE IF ~(q.count < capacity)
  THEN [ring |-> q, res |-> EnqueueResult(FALSE, 1), wait |-> FALSE]
  ELSE [ring |-> push_unlocked_(q, r), res |-> EnqueueResult(TRUE, 0), wait |-> FALSE]

\* Mutant: a full queue evicts its oldest record instead of making the caller wait.
enqueue_block_evicts(q, r) ==
  IF q_stop_requested
  THEN [ring |-> q, res |-> EnqueueResult(FALSE, 0), wait |-> FALSE]
  ELSE IF ~(q.count < capacity)
  THEN [ring |-> push_unlocked_(pop_oldest_unlocked_(q), r),
        res |-> EnqueueResult(TRUE, 0), wait |-> FALSE]
  ELSE [ring |-> push_unlocked_(q, r), res |-> EnqueueResult(TRUE, 0), wait |-> FALSE]

\* Mutant: after the wait, room is looked for before the stop flag.
enqueue_block_room_first(q, r) ==
  IF ~(q_stop_requested \/ q.count < capacity)
  THEN [ring |-> q, res |-> NoResult, wait |-> TRUE]
  ELSE IF q.count < capacity
  THEN [ring |-> push_unlocked_(q, r), res |-> EnqueueResult(TRUE, 0), wait |-> FALSE]
  ELSE [ring |-> q, res |-> EnqueueResult(FALSE, 0), wait |-> FALSE]

\* enqueue from the wait of the Block policy on (lines 79-82, 92-94):
\* wait while the queue is full and not stopping, fail on stop, else push.
enqueue_block(q, r) ==
  IF ~(q_stop_requested \/ q.count < capacity)
  THEN [ring |-> q, res |-> NoResult, wait |-> TRUE]
  ELSE IF q_stop_requested
  THEN [ring |-> q, res |-> EnqueueResult(FALSE, 0), wait |-> FALSE]
  ELSE [ring |-> push_unlocked_(q, r), res |-> EnqueueResult(TRUE, 0), wait |-> FALSE]

\* Mutant: DropNewest evicts the oldest record like DropOldest.
enqueue_always_evicts(q, r) ==
  IF q_stop_requested
  THEN [ring |-> q, res |-> EnqueueResult(FALSE, 0), wait |-> FALSE]
  ELSE IF policy = Block
  THEN enqueue_block(q, r)
  ELSE IF q.count >= capacity
  THEN [ring |-> push_unlocked_(pop_oldest_unlocked_(q), r),
        res |-> EnqueueResult(TRUE, 1), wait |-> FALSE]
  ELSE [ring |-> push_unlocked_(q, r), res |-> EnqueueResult(TRUE, 0), wait |-> FALSE]

\* Mutant: the stop flag is not looked at on entry.
enqueue_unchecked_stop(q, r) ==
  IF policy = Block
  THEN enqueue_block(q, r)
  ELSE IF q.count >= capacity
  THEN IF policy = DropNewest
       THEN [ring |-> q, res |-> EnqueueResult(FALSE, 1), wait |-> FALSE]
       ELSE [ring |-> push_unlocked_(pop_oldest_unlocked_(q), r),
             res |-> EnqueueResult(TRUE, 1), wait |-> FALSE]
  ELSE [ring |-> push_unlocked_(q, r), res |-> EnqueueResult(TRUE, 0), wait |-> FALSE]

\* Mutant: DropOldest pushes into a full queue without popping the oldest record.
enqueue_overfills(q, r) ==
  IF q_stop_requested
  THEN [ring |-> q, res |-> EnqueueResult(FALSE, 0), wait |-> FALSE]
  ELSE IF policy = Block
  THEN enqueue_block(q, r)
  ELSE IF q.count >= capacity /\ policy = DropNewest
  THEN [ring |-> q, res |-> EnqueueResult(FALSE, 1), wait |-> FALSE]
  ELSE [ring |-> push_unlocked_(q, r),
        res |-> EnqueueResult(TRUE, IF q.count >= capacity THEN 1 ELSE 0),
        wait |-> FALSE]

\* Mutant: a full queue makes the caller wait under every policy.
enqueue_waits_when_full(q, r) ==
  IF q_stop_requested
  THEN [ring |-> q, res |-> EnqueueResult(FALSE, 0), wait |-> FALSE]
  ELSE enqueue_block(q, r)

\* Mutant: DropNewest and DropOldest treat a queue with one free slot as full.
enqueue_full_one_early(q, r) ==
  IF q_stop_requested
  THEN [ring |-> q, res |-> EnqueueResult(FALSE, 0), wait |-> FALSE]
  ELSE IF policy = Block
  THEN enqueue_block(q, r)
  ELSE IF q.count + 1 >= capacity
  THEN IF policy = DropNewest
       THEN [ring |-> q, res |-> EnqueueResult(FALSE, 1), wait |-> FALSE]
       ELSE [ring |-> push_unlocked_(pop_oldest_unlocked_(q), r),
             res |-> EnqueueResult(TRUE, 1), wait |-> FALSE]
  ELSE [ring |-> push_unlocked_(q, r), res |-> EnqueueResult(TRUE, 0), wait |-> FALSE]

\* enqueue under m_: the new ring, the EnqueueResult, or wait = TRUE when the
\* caller blocks on cv_not_full_.
enqueue(q, r) ==
  IF q_stop_requested
  THEN [ring |-> q, res |-> EnqueueResult(FALSE, 0), wait |-> FALSE]
  ELSE IF policy = Block
  THEN enqueue_block(q, r)
  ELSE IF q.count >= capacity
  THEN IF policy = DropNewest
       THEN [ring |-> q, res |-> EnqueueResult(FALSE, 1), wait |-> FALSE]
       ELSE [ring |-> push_unlocked_(pop_oldest_unlocked_(q), r),
             res |-> EnqueueResult(TRUE, 1), wait |-> FALSE]
  ELSE [ring |-> push_unlocked_(q, r), res |-> EnqueueResult(TRUE, 0), wait |-> FALSE]

\* Mutant: a rejection that reports dropped = 0 is not counted.
write_dropped_overflow_only(rs) == IF rs.dropped > 0 THEN rs.dropped ELSE 0

\* What AsyncSink::write adds to dropped_records_count_ for an EnqueueResult.
write_dropped(rs) ==
  (IF rs.dropped > 0 THEN rs.dropped ELSE 0)
  + (IF ~rs.enqueued /\ rs.dropped = 0 THEN 1 ELSE 0)

\* ------------------------------------------------- Logger, LoggerRegistry
MaxLoggers == 4
MaxLoggerCalls == 4
MaxLogs == 1
MaxSinks == 2

LogThreads == {"t1", "t2"}
Sinks == {"s1", "s2"}

\* enum class Level.
Debug == 0
Info == 1
Warn == 2
Error == 3
Fatal == 4
Level == {Debug, Info, Warn, Error, Fatal}

\* Logger objects are numbered in the order of their construction; a null
\* shared_ptr<Logger> is NoLogger.
Loggers == 1..MaxLoggers
NoLogger == 0

\* A name is the sequence of its characters.
NoName == <<"?">>
Names ==
  {<<>>, <<"a">>, <<"a", ".", "b">>, <<"a", ".", "c">>,
   <<"a", ".", "b", ".", "c">>}

\* std::string::npos, and name.find('.', start) on 0-based positions.
npos == -1

find(name, start) ==
  LET dots == {i \in start..(Len(name) - 1) : name[i + 1] = "."}
  IN  IF dots = {} THEN npos ELSE CHOOSE i \in dots : \A j \in dots : i <= j

\* The sink lists a client passes to set_sinks.
SinkLists == UNION {[1..n -> Sinks] : n \in 0..MaxSinks}

\* What a sink does when called: a TestSink/CountingSink never throws, a
\* ThrowingSink throws from write(); a sink may also throw from flush().
SinkBehaviour == {"never", "write", "flush"}

\* The registry and the fields get_logger touches, as one value.
Registry ==
  [loggers |-> loggers_, n |-> nloggers, name |-> name_, parent |-> parent_]

\* Mutant: a new Logger is constructed on every request.
get_or_create_always_creates(R, name) ==
  LET created_ == R.n + 1
  IN  [R |-> [R EXCEPT !.loggers = (name :> created_) @@ R.loggers,
                       !.n = created_,
                       !.name[created_] = name],
       logger |-> created_]

get_or_create_locked_(R, name) ==
  IF name \in DOMAIN R.loggers
  THEN [R |-> R, logger |-> R.loggers[name]]
  ELSE LET created_ == R.n + 1
       IN  [R |-> [R EXCEPT !.loggers = (name :> created_) @@ R.loggers,
                            !.n = created_,
                            !.name[created_] = name],
            logger |-> created_]

\* Mutant: the parent is not recorded.
set_parent_dropped(R, current, parent) == R

\* Mutant: a Logger is made its own parent.
set_parent_self(R, current, parent) == [R EXCEPT !.parent[current] = current]

\* Mutant: the link is made the wrong way round.
set_parent_swapped(R, current, parent) == [R EXCEPT !.parent[parent] = current]

set_parent(R, current, parent) == [R EXCEPT !.parent[current] = parent]

\* The while loop of get_logger: one iteration per dot-delimited prefix.
RECURSIVE get_logger_loop(_, _, _, _)
get_logger_loop(R, name, start, prev) ==
  IF ~(start < Len(name)) THEN [R |-> R, logger |-> prev]
  ELSE
    LET dot == find(name, start)
        end == IF dot = npos THEN Len(name) ELSE dot
        segment == SubSeq(name, 1, end)
        g == get_or_create_locked_(R, segment)
        R2 == IF prev # NoLogger THEN set_parent(g.R, g.logger, prev) ELSE g.R
    IN  IF dot = npos THEN [R |-> R2, logger |-> g.logger]
        ELSE get_logger_loop(R2, name, dot + 1, g.logger)

\* The Loggers a thread inside a call holds a shared_ptr to: the one it is
\* about to lock and the ones it has locked.
Pinned ==
  UNION {{cur[t]} \cup {guards[t][i] : i \in 1..Len(guards[t])} : t \in LogThreads}
    \ {NoLogger}

\* A Logger object exists while the registry, a client or a running call
\* holds a shared_ptr to it; weak_ptr::lock gives null for an object that no
\* longer exists.
Alive == held \cup {loggers_[n] : n \in DOMAIN loggers_} \cup Pinned

lock(l) == IF l \in Alive THEN l ELSE NoLogger

parent(l) == lock(parent_[l])

\* Each effective_* call keeps the mutex of every logger it has read locked
\* until it returns, so the values it has read are still current when it
\* reads the last one: the call is one step.
RECURSIVE effective_level(_)
effective_level(l) ==
  IF level_overridden_[l] THEN level_[l]
  ELSE IF parent(l) # NoLogger THEN effective_level(parent(l))
  ELSE level_[l]

\* Mutant: a logger without a sink override has no sinks.
effective_sinks_not_inherited(l) ==
  IF sinks_overridden_[l] THEN sinks_[l] ELSE <<>>

RECURSIVE effective_sinks(_)
effective_sinks(l) ==
  IF sinks_overridden_[l] THEN sinks_[l]
  ELSE IF parent(l) # NoLogger THEN effective_sinks(parent(l))
  ELSE <<>>

RECURSIVE effective_immediate_flush(_)
effective_immediate_flush(l) ==
  IF immediate_flush_overridden_[l] THEN immediate_flush_[l]
  ELSE IF parent(l) # NoLogger THEN effective_immediate_flush(parent(l))
  ELSE immediate_flush_[l]

NoRecordLogged == [id |-> <<>>, level |-> Debug]
NoGetLogger == [name |-> <<>>, start |-> 0, prev |-> NoLogger]
NothingResolved == [threshold |-> Debug, passed |-> FALSE, sinks |-> <<>>, do_flush |-> FALSE]

\* An empty registry, no Logger constructed yet (each Logger is constructed
\* with level_ Info and nothing overridden), and idle logging threads.
RegistryInit(behaviours) ==
  /\ loggers_ = <<>>
  /\ nloggers = 0
  /\ held = {}
  /\ name_ = [l \in Loggers |-> NoName]
  /\ level_ = [l \in Loggers |-> Info]
  /\ level_overridden_ = [l \in Loggers |-> FALSE]
  /\ sinks_ = [l \in Loggers |-> <<>>]
  /\ sinks_overridden_ = [l \in Loggers |-> FALSE]
  /\ parent_ = [l \in Loggers |-> NoLogger]
  /\ immediate_flush_ = [l \in Loggers |-> FALSE]
  /\ immediate_flush_overridden_ = [l \in Loggers |-> FALSE]
  /\ logger_dropped_records_count = [l \in Loggers |-> 0]
  /\ logger_sink_failures_count = [l \in Loggers |-> 0]
  /\ sink_throws \in behaviours
  /\ sink_calls = [t \in LogThreads |-> <<>>]
  /\ lpc = [t \in LogThreads |-> "idle"]
  /\ lself = [t \in LogThreads |-> NoLogger]
  /\ lrec = [t \in LogThreads |-> NoRecordLogged]
  /\ lsinks = [t \in LogThreads |-> <<>>]
  /\ do_flush = [t \in LogThreads |-> FALSE]
  /\ nlogs = [t \in LogThreads |-> 0]
  /\ ncalls = 0
  /\ nclears = 0
  /\ created = {}
  /\ returned = <<>>
  /\ resolved = [t \in LogThreads |-> NothingResolved]
  /\ registry_mutex = NoThread
  /\ mutex_ = [l \in Loggers |-> NoThread]
  /\ cpc = [t \in LogThreads |-> "idle"]
  /\ cop = [t \in LogThreads |-> "none"]
  /\ cwalk = [t \in LogThreads |-> "none"]
  /\ cur = [t \in LogThreads |-> NoLogger]
  /\ guards = [t \in LogThreads |-> <<>>]
  /\ gl = [t \in LogThreads |-> NoGetLogger]
  /\ nlockcalls = 0

\* ------------------------------------------------------------------ Init
\* The calls the client threads make: MaxCalls in all, or MaxWrites writes by
\* every producer and nothing else (the concurrent-writers scenario). Threads
\* of one kind are interchangeable, so the first of them is given the most calls.
RECURSIVE Sum(_, _)
Sum(f, S) ==
  IF S = {} THEN 0
  ELSE LET x == CHOOSE y \in S : TRUE IN f[x] + Sum(f, S \ {x})

Workloads ==
  {w \in [writes : [Producers -> 0..MaxWrites],
          flushes : [Flushers -> 0..MaxFlushes],
          stops : 0..MaxStopCalls] :
     /\ \/ Sum(w.writes, Producers) + Sum(w.flushes, Flushers) + w.stops = MaxCalls
        \/ /\ \A p \in Producers : w.writes[p] = MaxWrites
           /\ \A f \in Flushers : w.flushes[f] = 0
           /\ w.stops = 0
     /\ w.writes["p1"] >= w.writes["p2"]
     /\ w.flushes["f1"] >= w.flushes["f2"]}

\* The pipeline after AsyncSink's constructor, for a set of workloads and a
\* wrapped sink that throws from every call or from none.
AsyncSinkInit(workloads, throws) ==
  /\ calls \in workloads
  /\ capacity \in {NormalizeOption(c) : c \in 0..MaxCapacity}
  /\ max_batch \in {NormalizeOption(b) : b \in 0..MaxBatch}
  /\ policy \in OverflowPolicy
  /\ wrapped_throws = throws
  /\ buffer = [i \in 0..(capacity - 1) |-> NoRecord]
  /\ head = 0 /\ tail = 0 /\ count = 0
  /\ q_stop_requested = FALSE /\ flush_kick = FALSE
  /\ notified = {}
  /\ stop_requested = FALSE
  /\ flush_request_gen = 0 /\ flush_done_gen = 0
  /\ dropped_records_count = 0 /\ sink_failures_count = 0
  /\ flush_m = NoThread
  /\ wpc = "wait" /\ batch = <<>> /\ last_seen_flush_gen = 0 /\ want = 0
  /\ ppc = [p \in Producers |-> "idle"]
  /\ nwrites = [p \in Producers |-> 0]
  /\ res = [p \in Producers |-> NoResult]
  /\ fpc = [f \in Flushers |-> "idle"]
  /\ gen = [f \in Flushers |-> 0]
  /\ nflushes = [f \in Flushers |-> 0]
  /\ snap = [f \in Flushers |-> {}]
  /\ opc = "idle" /\ nstops = 0
  /\ delivered = <<>> /\ flushed_upto = 0 /\ gen_at_wrapped_flush = 0
  /\ enqueued = {} /\ evicted = {}

\* No sink of a logger throws while the pipeline is exercised.
NeverThrows == [s \in Sinks |-> "never"]

Init == AsyncSinkInit(Workloads, FALSE) /\ RegistryInit({NeverThrows})

\* ---------------------------------------------------- AsyncSink::write
\* The effect of an enqueue that returned in producer p's critical section.
EnqueueReturn(p, r, o) ==
  /\ SetRing(o.ring)
  /\ res' = [res EXCEPT ![p] = o.res]
  /\ ppc' = [ppc EXCEPT ![p] = "count"]
  /\ \E woken \in (IF o.res.enqueued THEN notify_one(WaitingNotEmpty) ELSE {{}}) :
       notified' = (notified \ {p}) \cup woken
  /\ enqueued' = IF o.res.enqueued THEN enqueued \cup {r} ELSE enqueued
  /\ evicted' = IF o.res.enqueued /\ o.res.dropped > 0
                THEN evicted \cup {buffer[head]} ELSE evicted

EnqueueWait(p) ==
  /\ ppc' = [ppc EXCEPT ![p] = "blocked"]
  /\ notified' = notified \ {p}
  /\ UNCHANGED <<qvars, res, histvars>>

\* write(): copy the record and call queue_->enqueue (lines 64-65).
WriteEnqueue(p) ==
  /\ ppc[p] = "idle"
  /\ nwrites[p] < calls.writes[p]
  /\ nwrites' = [nwrites EXCEPT ![p] = @ + 1]
  /\ LET r == <<p, nwrites[p] + 1>>
         o == enqueue(Ring, r)
     IN  IF o.wait THEN EnqueueWait(p) ELSE EnqueueReturn(p, r, o)
  /\ UNCHANGED <<loggervars, cfgvars, qflags, genvars, cntvars, flush_m, wvars, fvars,
                 ovars, sinkvars>>

\* A producer blocked in cv_not_full_.wait leaves the wait and re-evaluates
\* its predicate under m_.
WriteResume(p) ==
  /\ ppc[p] = "blocked"
  /\ LET r == <<p, nwrites[p]>>
         o == enqueue_block(Ring, r)
     IN  IF o.wait THEN EnqueueWait(p) ELSE EnqueueReturn(p, r, o)
  /\ UNCHANGED <<loggervars, cfgvars, qflags, genvars, cntvars, flush_m, wvars, fvars,
                 ovars, sinkvars, nwrites>>

WriteWake(p) == p \in notified /\ WriteResume(p)

\* write(): account the result in dropped_records_count_ (lines 66-72), return.
WriteCount(p) ==
  /\ ppc[p] = "count"
  /\ dropped_records_count' = dropped_records_count + write_dropped(res[p])
  /\ ppc' = [ppc EXCEPT ![p] = "idle"]
  /\ res' = [res EXCEPT ![p] = NoResult]
  /\ UNCHANGED <<loggervars, cfgvars, qvars, qflags, notified, genvars, sink_failures_count,
                 flush_m, wvars, nwrites, fvars, ovars, sinkvars, histvars>>

\* ---------------------------------------------------- AsyncSink::flush
\* gen = flush_request_gen_.fetch_add(1) + 1 (line 76).
FlushBegin(f) ==
  /\ fpc[f] = "idle"
  /\ nflushes[f] < calls.flushes[f]
  /\ nflushes' = [nflushes EXCEPT ![f] = @ + 1]
  /\ flush_request_gen' = flush_request_gen + 1
  /\ gen' = [gen EXCEPT ![f] = flush_request_gen + 1]
  /\ snap' = [snap EXCEPT ![f] = enqueued]
  /\ fpc' = [fpc EXCEPT ![f] = "kick"]
  /\ UNCHANGED <<loggervars, cfgvars, qvars, qflags, notified, flush_done_gen, cntvars,
                 flush_m, wvars, pvars, ovars, sinkvars, histvars>>

\* Mutant: the consumer is notified but flush_kick_ is not set.
FlushKickWithoutFlag(f) ==
  /\ fpc[f] = "kick"
  /\ \E woken \in notify_all(WaitingNotEmpty) : notified' = notified \cup woken
  /\ fpc' = [fpc EXCEPT ![f] = "lock"]
  /\ UNCHANGED <<loggervars, cfgvars, qvars, qflags, genvars, cntvars, flush_m,
                 wvars, pvars, gen, nflushes, snap, ovars, sinkvars, histvars>>

\* kick_for_flush (lines 79-80, 136-142): flush_kick_ = true under m_, then
\* cv_not_empty_.notify_all().
FlushKick(f) ==
  /\ fpc[f] = "kick"
  /\ flush_kick' = TRUE
  /\ \E woken \in notify_all(WaitingNotEmpty) : notified' = notified \cup woken
  /\ fpc' = [fpc EXCEPT ![f] = "lock"]
  /\ UNCHANGED <<loggervars, cfgvars, qvars, q_stop_requested, genvars, cntvars, flush_m,
                 wvars, pvars, gen, nflushes, snap, ovars, sinkvars, histvars>>

\* The predicate of flush_cv.wait, evaluated holding flush_m (line 86):
\* true: unlock and return; false: keep flush_m and go on to block.
FlushPredicate(f) ==
  IF flush_done_gen >= gen[f]
  THEN /\ flush_m' = NoThread
       /\ fpc' = [fpc EXCEPT ![f] = "idle"]
       /\ gen' = [gen EXCEPT ![f] = 0]
       /\ snap' = [snap EXCEPT ![f] = {}]
  ELSE /\ flush_m' = f
       /\ fpc' = [fpc EXCEPT ![f] = "block"]
       /\ UNCHANGED <<gen, snap>>

\* std::unique_lock lk(impl_->flush_m) (line 85) and the first evaluation of
\* the wait predicate.
FlushLock(f) ==
  /\ fpc[f] = "lock"
  /\ flush_m = NoThread
  /\ FlushPredicate(f)
  /\ UNCHANGED <<loggervars, cfgvars, qvars, qflags, notified, genvars, cntvars, wvars,
                 pvars, nflushes, ovars, sinkvars, histvars>>

\* condition_variable::wait releases flush_m and blocks, atomically.
FlushBlock(f) ==
  /\ fpc[f] = "block"
  /\ flush_m' = NoThread
  /\ notified' = notified \ {f}
  /\ fpc' = [fpc EXCEPT ![f] = "waiting"]
  /\ UNCHANGED <<loggervars, cfgvars, qvars, qflags, genvars, cntvars, wvars, pvars, gen,
                 nflushes, snap, ovars, sinkvars, histvars>>

\* A flusher leaves the wait (why: see FlushWake, SpuriousWakeup), re-acquires
\* flush_m and evaluates the predicate again.
FlushResume(f) ==
  /\ fpc[f] = "waiting"
  /\ flush_m = NoThread
  /\ notified' = notified \ {f}
  /\ FlushPredicate(f)
  /\ UNCHANGED <<loggervars, cfgvars, qvars, qflags, genvars, cntvars, wvars, pvars,
                 nflushes, ovars, sinkvars, histvars>>

FlushWake(f) == f \in notified /\ FlushResume(f)

\* ------------------------------------------------ AsyncSink::worker_loop_
\* wait_for_work's predicate (line 132).
work_available == q_stop_requested \/ count > 0 \/ flush_kick

\* Lines 105-109 once the predicate holds: clear the kick, break out of the
\* loop on stop with an empty queue, else go on to drain.
WorkerProceed ==
  /\ flush_kick' = FALSE
  /\ wpc' = IF q_stop_requested /\ ~(count > 0) THEN "fdequeue" ELSE "dequeue"

\* Lock m_ and enter wait_for_work (lines 105-106): block unless the
\* predicate already holds.
WorkerWait ==
  /\ wpc = "wait"
  /\ notified' = notified \ {Worker}
  /\ IF work_available THEN WorkerProceed
     ELSE wpc' = "waiting" /\ flush_kick' = flush_kick
  /\ UNCHANGED <<loggervars, cfgvars, qvars, q_stop_requested, genvars, cntvars, flush_m,
                 batch, last_seen_flush_gen, want, pvars, fvars, ovars,
                 sinkvars, histvars>>

\* The worker, blocked in cv_not_empty_.wait, leaves the wait and re-evaluates
\* the predicate under m_.
WorkerResume ==
  /\ wpc = "waiting"
  /\ notified' = notified \ {Worker}
  /\ IF work_available THEN WorkerProceed
     ELSE wpc' = "waiting" /\ flush_kick' = flush_kick
  /\ UNCHANGED <<loggervars, cfgvars, qvars, q_stop_requested, genvars, cntvars, flush_m,
                 batch, last_seen_flush_gen, want, pvars, fvars, ovars,
                 sinkvars, histvars>>

WorkerWake == Worker \in notified /\ WorkerResume

\* One queue_->dequeue_batch(batch, max_batch) call of a drain loop; a call
\* that returns 0 ends the loop at pc `after`.
DrainDequeue(at, body, after) ==
  /\ wpc = at
  /\ LET d == dequeue_batch(Ring, batch, max_batch)
         n == Len(d.out) - Len(batch)
     IN  /\ SetRing(d.q)
         /\ batch' = d.out
         /\ \E woken \in (IF n > 0 THEN notify_all(WaitingNotFull) ELSE {{}}) :
              notified' = notified \cup woken
         /\ wpc' = IF n > 0 THEN body ELSE after
  /\ UNCHANGED <<loggervars, cfgvars, qflags, genvars, cntvars, flush_m,
                 last_seen_flush_gen, want, pvars, fvars, ovars, sinkvars,
                 histvars>>

\* Mutant: a throw from wrapped_->write() leaves the for loop, and the rest
\* of the batch is cleared undelivered.
DrainWriteLeavesLoop(at, loop) ==
  /\ wpc = at
  /\ batch # <<>>
  /\ delivered' = Append(delivered, Head(batch))
  /\ sink_failures_count' = sink_failures_count + (IF wrapped_throws THEN 1 ELSE 0)
  /\ batch' = IF wrapped_throws THEN <<>> ELSE Tail(batch)
  /\ wpc' = IF batch' = <<>> THEN loop ELSE at
  /\ UNCHANGED <<loggervars, cfgvars, qvars, qflags, notified, genvars,
                 dropped_records_count, flush_m, last_seen_flush_gen, want,
                 pvars, fvars, ovars, flushed_upto, gen_at_wrapped_flush,
                 histvars>>

\* wrapped_->write(r) for the next record of the batch, a throw counted in
\* sink_failures_count_; after the last record batch.clear() and loop.
DrainWrite(at, loop) ==
  /\ wpc = at
  /\ batch # <<>>
  /\ delivered' = Append(delivered, Head(batch))
  /\ sink_failures_count' = sink_failures_count + (IF wrapped_throws THEN 1 ELSE 0)
  /\ batch' = Tail(batch)
  /\ wpc' = IF Tail(batch) = <<>> THEN loop ELSE at
  /\ UNCHANGED <<loggervars, cfgvars, qvars, qflags, notified, genvars,
                 dropped_records_count, flush_m, last_seen_flush_gen, want,
                 pvars, fvars, ovars, flushed_upto, gen_at_wrapped_flush,
                 histvars>>

\* wrapped_->flush(), a throw counted in sink_failures_count_.
WrappedFlush ==
  /\ flushed_upto' = Len(delivered)
  /\ gen_at_wrapped_flush' = flush_request_gen
  /\ sink_failures_count' = sink_failures_count + (IF wrapped_throws THEN 1 ELSE 0)

WorkerDequeue == DrainDequeue("dequeue", "write", "load")
WorkerWrite == DrainWrite("write", "dequeue")

\* want = flush_request_gen_.load(); if (want != last_seen_flush_gen) (lines 125-126).
WorkerLoad ==
  /\ wpc = "load"
  /\ want' = flush_request_gen
  /\ wpc' = IF flush_request_gen # last_seen_flush_gen THEN "flush" ELSE "wait"
  /\ UNCHANGED <<loggervars, cfgvars, qvars, qflags, notified, genvars, cntvars, flush_m,
                 batch, last_seen_flush_gen, pvars, fvars, ovars, sinkvars,
                 histvars>>

\* Lines 128-134.
WorkerFlush ==
  /\ wpc = "flush"
  /\ WrappedFlush
  /\ last_seen_flush_gen' = want
  /\ wpc' = "store"
  /\ UNCHANGED <<loggervars, cfgvars, qvars, qflags, notified, genvars,
                 dropped_records_count, flush_m, batch, want, pvars, fvars,
                 ovars, delivered, histvars>>

\* Mutant: the generation published is read again at the store.
WorkerStoreLatest ==
  /\ wpc = "store"
  /\ flush_done_gen' = flush_request_gen
  /\ wpc' = "notify"
  /\ UNCHANGED <<loggervars, cfgvars, qvars, qflags, notified, flush_request_gen, cntvars,
                 flush_m, batch, last_seen_flush_gen, want, pvars, fvars,
                 ovars, sinkvars, histvars>>

\* flush_done_gen_.store(last_seen_flush_gen) (line 135).
WorkerStore ==
  /\ wpc = "store"
  /\ flush_done_gen' = last_seen_flush_gen
  /\ wpc' = "notify"
  /\ UNCHANGED <<loggervars, cfgvars, qvars, qflags, notified, flush_request_gen, cntvars,
                 flush_m, batch, last_seen_flush_gen, want, pvars, fvars,
                 ovars, sinkvars, histvars>>

\* { std::lock_guard lk(impl_->flush_m); } impl_->flush_cv.notify_all();
\* (lines 136-139), back to the top of the loop.
WorkerNotify ==
  /\ wpc = "notify"
  /\ flush_m = NoThread
  /\ \E woken \in notify_all(WaitingFlushCv) : notified' = notified \cup woken
  /\ wpc' = "wait"
  /\ UNCHANGED <<loggervars, cfgvars, qvars, qflags, genvars, cntvars, flush_m, batch,
                 last_seen_flush_gen, want, pvars, fvars, ovars, sinkvars,
                 histvars>>

\* Final drain on shutdown (lines 144-153).
WorkerFinalDequeue == DrainDequeue("fdequeue", "fwrite", "fflush")
WorkerFinalWrite == DrainWrite("fwrite", "fdequeue")

\* Mutant: the thread ends without the final wrapped_->flush().
WorkerFinalFlushSkipped ==
  /\ wpc = "fflush"
  /\ wpc' = "fload"
  /\ UNCHANGED <<loggervars, cfgvars, qvars, qflags, notified, genvars, cntvars,
                 flush_m, batch, last_seen_flush_gen, want, pvars, fvars, ovars,
                 sinkvars, histvars>>

\* Lines 154-158.
WorkerFinalFlush ==
  /\ wpc = "fflush"
  /\ WrappedFlush
  /\ wpc' = "fload"
  /\ UNCHANGED <<loggervars, cfgvars, qvars, qflags, notified, genvars,
                 dropped_records_count, flush_m, batch, last_seen_flush_gen,
                 want, pvars, fvars, ovars, delivered, histvars>>

\* want = flush_request_gen_.load() (line 161).
WorkerFinalLoad ==
  /\ wpc = "fload"
  /\ want' = flush_request_gen
  /\ wpc' = "fstore"
  /\ UNCHANGED <<loggervars, cfgvars, qvars, qflags, notified, genvars, cntvars, flush_m,
                 batch, last_seen_flush_gen, pvars, fvars, ovars, sinkvars,
                 histvars>>

\* flush_done_gen_.store(want) (line 162).
WorkerFinalStore ==
  /\ wpc = "fstore"
  /\ flush_done_gen' = want
  /\ wpc' = "fnotify"
  /\ UNCHANGED <<loggervars, cfgvars, qvars, qflags, notified, flush_request_gen, cntvars,
                 flush_m, batch, last_seen_flush_gen, want, pvars, fvars,
                 ovars, sinkvars, histvars>>

\* impl_->flush_cv.notify_all() (line 163), flush_m not taken; the thread ends.
WorkerFinalNotify ==
  /\ wpc = "fnotify"
  /\ \E woken \in notify_all(WaitingFlushCv) : notified' = notified \cup woken
  /\ wpc' = "done"
  /\ UNCHANGED <<loggervars, cfgvars, qvars, qflags, genvars, cntvars, flush_m, batch,
                 last_seen_flush_gen, want, pvars, fvars, ovars, sinkvars,
                 histvars>>

\* ------------------------------------------ ~AsyncSink and request_stop_
\* if (stop_requested_.exchange(true)) return; (lines 48-50).
StopExchange ==
  /\ opc = "idle"
  /\ nstops < calls.stops
  /\ nstops' = nstops + 1
  /\ stop_requested' = TRUE
  /\ opc' = IF stop_requested THEN "idle" ELSE "qstop"
  /\ UNCHANGED <<loggervars, cfgvars, qvars, qflags, notified, genvars, cntvars, flush_m,
                 wvars, pvars, fvars, sinkvars, histvars>>

\* queue_->request_stop() (lines 118-125): stop_requested_ = true under m_,
\* then cv_not_empty_.notify_all() and cv_not_full_.notify_all().
StopQueue ==
  /\ opc = "qstop"
  /\ q_stop_requested' = TRUE
  /\ \E woken \in notify_all(WaitingNotEmpty \cup WaitingNotFull) :
       notified' = notified \cup woken
  /\ opc' = "kick"
  /\ UNCHANGED <<loggervars, cfgvars, qvars, flush_kick, genvars, cntvars, flush_m, wvars,
                 pvars, fvars, nstops, stop_requested, sinkvars, histvars>>

\* q->kick_for_flush() (lines 55-56, 136-142); request_stop_ returns.
StopKick ==
  /\ opc = "kick"
  /\ flush_kick' = TRUE
  /\ \E woken \in notify_all(WaitingNotEmpty) : notified' = notified \cup woken
  /\ opc' = "idle"
  /\ UNCHANGED <<loggervars, cfgvars, qvars, q_stop_requested, genvars, cntvars, flush_m,
                 wvars, pvars, fvars, nstops, stop_requested, sinkvars,
                 histvars>>

\* impl_->worker.join() (lines 42-44).
StopJoin ==
  /\ opc = "idle"
  /\ nstops > 0
  /\ wpc = "done"
  /\ opc' = "joined"
  /\ UNCHANGED <<loggervars, cfgvars, qvars, qflags, notified, genvars, cntvars, flush_m,
                 wvars, pvars, fvars, nstops, stop_requested, sinkvars,
                 histvars>>

\* ------------------------------------------------------ spurious wakeup
\* A condition_variable wait may return without a notification; the waiter
\* then re-evaluates its predicate like a notified one.
SpuriousWakeup(t) ==
  \/ t \in Producers /\ WriteResume(t)
  \/ t \in Flushers /\ FlushResume(t)
  \/ t = Worker /\ WorkerResume

\* -------------------------------------------------------- specification
ProducerStep(p) == WriteEnqueue(p) \/ WriteWake(p) \/ WriteCount(p)

FlusherStep(f) ==
  \/ FlushBegin(f) \/ FlushKick(f) \/ FlushLock(f) \/ FlushBlock(f)
  \/ FlushWake(f)

WorkerStep ==
  \/ WorkerWait \/ WorkerWake \/ WorkerDequeue \/ WorkerWrite \/ WorkerLoad
  \/ WorkerFlush \/ WorkerStore \/ WorkerNotify
  \/ WorkerFinalDequeue \/ WorkerFinalWrite \/ WorkerFinalFlush
  \/ WorkerFinalLoad \/ WorkerFinalStore \/ WorkerFinalNotify

OwnerProgress == StopQueue \/ StopKick \/ StopJoin

OwnerStep == StopExchange \/ OwnerProgress

Next ==
  \/ \E p \in Producers : ProducerStep(p)
  \/ \E f \in Flushers : FlusherStep(f)
  \/ WorkerStep
  \/ OwnerStep
  \/ \E t \in Producers \cup Flushers \cup {Worker} : SpuriousWakeup(t)

Spec == Init /\ [][Next]_vars

\* Every thread that can take a step eventually takes one; a thread that
\* needs flush_m gets it if it is free again and again (strong fairness for
\* the flushers and the worker). Whether the owner ever destroys the sink,
\* and whether a wait wakes spuriously, is left open.
Fairness ==
  /\ \A p \in Producers : WF_vars(ProducerStep(p))
  /\ \A f \in Flushers : SF_vars(FlusherStep(f))
  /\ SF_vars(WorkerStep)
  /\ WF_vars(OwnerProgress)

\* The liveness checks leave out configurations that only repeat another
\* one: dequeue_batch takes min(count_, max) records and count_ <= capacity_,
\* so a max_batch above the capacity acts as one equal to it; a queue with
\* room for every record ever written is never asked to enqueue when full,
\* so the overflow policy is never consulted, and slots beyond the number of
\* records ever written change only the slot numbers.
TotalWrites == Sum(calls.writes, Producers)

FairInit ==
  /\ Init
  /\ max_batch <= capacity
  /\ TotalWrites <= capacity => policy = Block
  /\ capacity <= (IF TotalWrites = 0 THEN 1 ELSE TotalWrites)

FairSpec == FairInit /\ [][Next]_vars /\ Fairness

\* The pipeline with nothing assumed of the drain thread: only the threads
\* inside write() keep running, and the worker, the flushers and the owner
\* may stop taking steps at any point.
WriterFairSpec ==
  FairInit /\ [][Next]_vars /\ \A p \in Producers : WF_vars(ProducerStep(p))

\* The pipeline around a wrapped sink whose write() and flush() always throw
\* (the ThrowingSink of the tests), on the same configurations and under the
\* same fairness.
ThrowInit ==
  /\ AsyncSinkInit(Workloads, TRUE)
  /\ RegistryInit({NeverThrows})
  /\ max_batch <= capacity
  /\ TotalWrites <= capacity => policy = Block
  /\ capacity <= (IF TotalWrites = 0 THEN 1 ELSE TotalWrites)

ThrowSpec == ThrowInit /\ [][Next]_vars /\ Fairness

\* ------------------------------------------------------- LoggerRegistry
\* A client makes one more registry or logger call.
ClientCall ==
  /\ ncalls < MaxLoggerCalls
  /\ ncalls' = ncalls + 1

\* LoggerRegistry::get_logger(name): the whole body runs under the registry
\* mutex_. The client keeps the shared_ptr it is given.
get_logger(name) ==
  /\ ClientCall
  /\ IF name = <<>>
     THEN /\ returned' = Append(returned, <<name, NoLogger, nclears>>)
          /\ UNCHANGED <<registryvars, name_, parent_, created>>
     ELSE LET g == get_logger_loop(Registry, name, 0, NoLogger)
          IN  /\ g.R.n <= MaxLoggers
              /\ loggers_' = g.R.loggers
              /\ nloggers' = g.R.n
              /\ name_' = g.R.name
              /\ parent_' = g.R.parent
              /\ held' = held \cup {g.logger}
              /\ created' = created \cup
                   {<<g.R.name[l], l, nclears>> : l \in (nloggers + 1)..g.R.n}
              /\ returned' = Append(returned, <<name, g.logger, nclears>>)
  /\ UNCHANGED <<pipelinevars, lockvars, levelvars, sinksvars, flushvars, statvars,
                 sink_throws, sink_calls, logvars, nclears, resolved>>

\* LoggerRegistry::clear(): the registry gives up its shared_ptrs.
clear ==
  /\ ClientCall
  /\ loggers_' = <<>>
  /\ nclears' = nclears + 1
  /\ UNCHANGED <<pipelinevars, lockvars, nloggers, held, name_, parent_, levelvars,
                 sinksvars, flushvars, statvars, sink_throws, sink_calls,
                 logvars, created, returned, resolved>>

\* --------------------------------------------------------------- Logger
\* Mutant: the level is written to the parent as well.
set_level_through_parent(l, level) ==
  /\ ClientCall
  /\ l \in held
  /\ level_' = [m \in Loggers |->
                  IF m \in {l, parent(l)} THEN level ELSE level_[m]]
  /\ level_overridden_' = [m \in Loggers |->
                  IF m \in {l, parent(l)} THEN TRUE ELSE level_overridden_[m]]
  /\ UNCHANGED <<pipelinevars, lockvars, registryvars, name_, parent_, sinksvars,
                 flushvars, statvars, sink_throws, sink_calls, logvars,
                 loghistvars>>

set_level(l, level) ==
  /\ ClientCall
  /\ l \in held
  /\ level_' = [level_ EXCEPT ![l] = level]
  /\ level_overridden_' = [level_overridden_ EXCEPT ![l] = TRUE]
  /\ UNCHANGED <<pipelinevars, lockvars, registryvars, name_, parent_, sinksvars,
                 flushvars, statvars, sink_throws, sink_calls, logvars,
                 loghistvars>>

clear_level_override(l) ==
  /\ ClientCall
  /\ l \in held
  /\ level_overridden_' = [level_overridden_ EXCEPT ![l] = FALSE]
  /\ UNCHANGED <<pipelinevars, lockvars, registryvars, name_, parent_, level_,
                 sinksvars, flushvars, statvars, sink_throws, sink_calls,
                 logvars, loghistvars>>

\* Mutant: the sink is appended and the override is left as it was.
add_sink_without_override(l, sink) ==
  /\ ClientCall
  /\ l \in held
  /\ Len(sinks_[l]) < MaxSinks
  /\ sinks_' = [sinks_ EXCEPT ![l] = Append(@, sink)]
  /\ UNCHANGED <<pipelinevars, lockvars, registryvars, name_, parent_, levelvars,
                 sinks_overridden_, flushvars, statvars, sink_throws,
                 sink_calls, logvars, loghistvars>>

add_sink(l, sink) ==
  /\ ClientCall
  /\ l \in held
  /\ Len(sinks_[l]) < MaxSinks
  /\ sinks_' = [sinks_ EXCEPT ![l] = Append(@, sink)]
  /\ sinks_overridden_' = [sinks_overridden_ EXCEPT ![l] = TRUE]
  /\ UNCHANGED <<pipelinevars, lockvars, registryvars, name_, parent_, levelvars,
                 flushvars, statvars, sink_throws, sink_calls, logvars,
                 loghistvars>>

set_sinks(l, sinks) ==
  /\ ClientCall
  /\ l \in held
  /\ sinks_' = [sinks_ EXCEPT ![l] = sinks]
  /\ sinks_overridden_' = [sinks_overridden_ EXCEPT ![l] = TRUE]
  /\ UNCHANGED <<pipelinevars, lockvars, registryvars, name_, parent_, levelvars,
                 flushvars, statvars, sink_throws, sink_calls, logvars,
                 loghistvars>>

clear_sink_override(l) ==
  /\ ClientCall
  /\ l \in held
  /\ sinks_overridden_' = [sinks_overridden_ EXCEPT ![l] = FALSE]
  /\ sinks_' = [sinks_ EXCEPT ![l] = <<>>]
  /\ UNCHANGED <<pipelinevars, lockvars, registryvars, name_, parent_, levelvars,
                 flushvars, statvars, sink_throws, sink_calls, logvars,
                 loghistvars>>

set_immediate_flush(l, enabled) ==
  /\ ClientCall
  /\ l \in held
  /\ immediate_flush_' = [immediate_flush_ EXCEPT ![l] = enabled]
  /\ immediate_flush_overridden_' = [immediate_flush_overridden_ EXCEPT ![l] = TRUE]
  /\ UNCHANGED <<pipelinevars, lockvars, registryvars, name_, parent_, levelvars,
                 sinksvars, statvars, sink_throws, sink_calls, logvars,
                 loghistvars>>

clear_immediate_flush_override(l) ==
  /\ ClientCall
  /\ l \in held
  /\ immediate_flush_overridden_' = [immediate_flush_overridden_ EXCEPT ![l] = FALSE]
  /\ UNCHANGED <<pipelinevars, lockvars, registryvars, name_, parent_, levelvars,
                 sinksvars, immediate_flush_, statvars, sink_throws,
                 sink_calls, logvars, loghistvars>>

\* ---------------------------------------------------------- Logger::log
\* Mutant: a record at the effective level is filtered out as well.
log_filter_exclusive(t, l, level) ==
  /\ ClientCall
  /\ lpc[t] = "idle"
  /\ nlogs[t] < MaxLogs
  /\ l \in held
  /\ nlogs' = [nlogs EXCEPT ![t] = @ + 1]
  /\ lself' = [lself EXCEPT ![t] = l]
  /\ lrec' = [lrec EXCEPT ![t] = [id |-> <<t, nlogs[t] + 1>>, level |-> level]]
  /\ sink_calls' = [sink_calls EXCEPT ![t] = <<>>]
  /\ lsinks' = [lsinks EXCEPT ![t] = <<>>]
  /\ do_flush' = [do_flush EXCEPT ![t] = FALSE]
  /\ resolved' = [resolved EXCEPT ![t] =
                    [NothingResolved EXCEPT !.threshold = effective_level(l),
                                            !.passed = ~(level <= effective_level(l))]]
  /\ lpc' = [lpc EXCEPT ![t] = IF level <= effective_level(l) THEN "idle" ELSE "sinks"]
  /\ UNCHANGED <<pipelinevars, lockvars, registryvars, name_, parent_, levelvars,
                 sinksvars, flushvars, statvars, sink_throws, nclears,
                 created, returned>>

\* Line 79: thread t calls l->log(record) with a record of the given level;
\* the call returns at once if the level is below effective_level().
log_filter(t, l, level) ==
  /\ ClientCall
  /\ lpc[t] = "idle"
  /\ nlogs[t] < MaxLogs
  /\ l \in held
  /\ nlogs' = [nlogs EXCEPT ![t] = @ + 1]
  /\ lself' = [lself EXCEPT ![t] = l]
  /\ lrec' = [lrec EXCEPT ![t] = [id |-> <<t, nlogs[t] + 1>>, level |-> level]]
  /\ sink_calls' = [sink_calls EXCEPT ![t] = <<>>]
  /\ lsinks' = [lsinks EXCEPT ![t] = <<>>]
  /\ do_flush' = [do_flush EXCEPT ![t] = FALSE]
  /\ resolved' = [resolved EXCEPT ![t] =
                    [NothingResolved EXCEPT !.threshold = effective_level(l),
                                            !.passed = ~(level < effective_level(l))]]
  /\ lpc' = [lpc EXCEPT ![t] = IF level < effective_level(l) THEN "idle" ELSE "sinks"]
  /\ UNCHANGED <<pipelinevars, lockvars, registryvars, name_, parent_, levelvars,
                 sinksvars, flushvars, statvars, sink_throws, nclears,
                 created, returned>>

\* Line 83: const auto sinks = effective_sinks().
log_sinks(t) ==
  /\ lpc[t] = "sinks"
  /\ lsinks' = [lsinks EXCEPT ![t] = effective_sinks(lself[t])]
  /\ resolved' = [resolved EXCEPT ![t].sinks = effective_sinks(lself[t])]
  /\ lpc' = [lpc EXCEPT ![t] = "flag"]
  /\ UNCHANGED <<pipelinevars, lockvars, registryvars, name_, parent_, levelvars,
                 sinksvars, flushvars, statvars, sink_throws, sink_calls,
                 lself, lrec, do_flush, nlogs, ncalls, nclears, created,
                 returned>>

\* Mutant: do_flush is the logger's own immediate_flush_, inherited or not.
log_flag_own_value(t) ==
  /\ lpc[t] = "flag"
  /\ do_flush' = [do_flush EXCEPT ![t] = immediate_flush_[lself[t]]]
  /\ resolved' = [resolved EXCEPT ![t].do_flush = effective_immediate_flush(lself[t])]
  /\ lpc' = [lpc EXCEPT ![t] = IF lsinks[t] = <<>> THEN "idle" ELSE "write"]
  /\ UNCHANGED <<pipelinevars, lockvars, registryvars, name_, parent_, levelvars,
                 sinksvars, flushvars, statvars, sink_throws, sink_calls,
                 lself, lrec, lsinks, nlogs, ncalls, nclears, created,
                 returned>>

\* Line 84: const bool do_flush = effective_immediate_flush(); the loop over
\* an empty list ends the call.
log_flag(t) ==
  /\ lpc[t] = "flag"
  /\ do_flush' = [do_flush EXCEPT ![t] = effective_immediate_flush(lself[t])]
  /\ resolved' = [resolved EXCEPT ![t].do_flush = effective_immediate_flush(lself[t])]
  /\ lpc' = [lpc EXCEPT ![t] = IF lsinks[t] = <<>> THEN "idle" ELSE "write"]
  /\ UNCHANGED <<pipelinevars, lockvars, registryvars, name_, parent_, levelvars,
                 sinksvars, flushvars, statvars, sink_throws, sink_calls,
                 lself, lrec, lsinks, nlogs, ncalls, nclears, created,
                 returned>>

\* Mutant: the loop reads the logger's live list, not its copy.
NextSink_live_list(t) ==
  LET done == Cardinality({i \in 1..Len(sink_calls[t]) :
                             sink_calls[t][i].op = "write"})
              + (IF lpc[t] = "write" THEN 1 ELSE 0)
      live == effective_sinks(lself[t])
      rest == IF done >= Len(live) THEN <<>> ELSE SubSeq(live, done + 1, Len(live))
  IN  /\ lsinks' = [lsinks EXCEPT ![t] = rest]
      /\ lpc' = [lpc EXCEPT ![t] = IF rest = <<>> THEN "idle" ELSE "write"]

\* The loop goes on to the next sink of the list, or log() returns.
NextSink(t) ==
  /\ lsinks' = [lsinks EXCEPT ![t] = Tail(@)]
  /\ lpc' = [lpc EXCEPT ![t] = IF Tail(lsinks[t]) = <<>> THEN "idle" ELSE "write"]

SinkCall(t, op) == [sink |-> Head(lsinks[t]), op |-> op, rec |-> lrec[t].id]

\* Mutant: a throw from write() ends the loop.
log_write_stops_at_failure(t) ==
  /\ lpc[t] = "write"
  /\ sink_calls' = [sink_calls EXCEPT ![t] = Append(@, SinkCall(t, "write"))]
  /\ IF sink_throws[Head(lsinks[t])] = "write"
     THEN /\ logger_sink_failures_count' =
               [logger_sink_failures_count EXCEPT ![lself[t]] = @ + 1]
          /\ lsinks' = [lsinks EXCEPT ![t] = <<>>]
          /\ lpc' = [lpc EXCEPT ![t] = "idle"]
     ELSE /\ UNCHANGED logger_sink_failures_count
          /\ IF do_flush[t]
             THEN lpc' = [lpc EXCEPT ![t] = "flush"] /\ UNCHANGED lsinks
             ELSE NextSink(t)
  /\ UNCHANGED <<pipelinevars, lockvars, registryvars, name_, parent_, levelvars,
                 sinksvars, flushvars, logger_dropped_records_count,
                 sink_throws, lself, lrec, do_flush, nlogs, ncalls,
                 loghistvars>>

\* Line 88: sink->write(record); a throw is caught at line 92 and counted.
log_write(t) ==
  /\ lpc[t] = "write"
  /\ sink_calls' = [sink_calls EXCEPT ![t] = Append(@, SinkCall(t, "write"))]
  /\ IF sink_throws[Head(lsinks[t])] = "write"
     THEN /\ logger_sink_failures_count' =
               [logger_sink_failures_count EXCEPT ![lself[t]] = @ + 1]
          /\ NextSink(t)
     ELSE /\ UNCHANGED logger_sink_failures_count
          /\ IF do_flush[t]
             THEN lpc' = [lpc EXCEPT ![t] = "flush"] /\ UNCHANGED lsinks
             ELSE NextSink(t)
  /\ UNCHANGED <<pipelinevars, lockvars, registryvars, name_, parent_, levelvars,
                 sinksvars, flushvars, logger_dropped_records_count,
                 sink_throws, lself, lrec, do_flush, nlogs, ncalls,
                 loghistvars>>

\* Line 90: sink->flush(); a throw is caught at line 92 and counted.
log_flush(t) ==
  /\ lpc[t] = "flush"
  /\ sink_calls' = [sink_calls EXCEPT ![t] = Append(@, SinkCall(t, "flush"))]
  /\ logger_sink_failures_count' =
       [logger_sink_failures_count EXCEPT ![lself[t]] =
          @ + (IF sink_throws[Head(lsinks[t])] = "flush" THEN 1 ELSE 0)]
  /\ NextSink(t)
  /\ UNCHANGED <<pipelinevars, lockvars, registryvars, name_, parent_, levelvars,
                 sinksvars, flushvars, logger_dropped_records_count,
                 sink_throws, lself, lrec, do_flush, nlogs, ncalls,
                 loghistvars>>

RegistryStep == (\E name \in Names : get_logger(name)) \/ clear

LevelStep ==
  \E l \in Loggers :
    \/ \E level \in Level : set_level(l, level)
    \/ clear_level_override(l)

SinksStep ==
  \E l \in Loggers :
    \/ \E sink \in Sinks : add_sink(l, sink)
    \/ \E sinks \in SinkLists : set_sinks(l, sinks)
    \/ clear_sink_override(l)

FlushModeStep ==
  \E l \in Loggers :
    \/ \E enabled \in BOOLEAN : set_immediate_flush(l, enabled)
    \/ clear_immediate_flush_override(l)

LogStep(t) ==
  \/ \E l \in Loggers, level \in Level : log_filter(t, l, level)
  \/ log_sinks(t) \/ log_flag(t) \/ log_write(t) \/ log_flush(t)

LoggerNext ==
  \/ RegistryStep
  \/ LevelStep
  \/ SinksStep
  \/ FlushModeStep
  \/ \E t \in LogThreads : LogStep(t)

\* The pipeline is left alone: no producer, flusher or owner makes a call.
NoCalls ==
  [writes |-> [p \in Producers |-> 0], flushes |-> [f \in Flushers |-> 0],
   stops |-> 0]

\* The first sink is of any kind, the second one never throws.
Behaviours == {b \in [Sinks -> SinkBehaviour] : b["s2"] = "never"}

LoggerInit ==
  /\ AsyncSinkInit({NoCalls}, FALSE)
  /\ capacity = 1 /\ max_batch = 1 /\ policy = Block
  /\ RegistryInit(Behaviours)

LoggerSpec == LoggerInit /\ [][LoggerNext]_vars

\* ------------------------------------------ LoggerRegistry, any name
\* get_logger takes any string: names with a trailing, a leading or a
\* doubled dot, and the single dot, as well as the well-formed ones.
DottedNames ==
  Names \cup {<<"a", ".">>, <<".", "a">>, <<"a", ".", ".", "b">>, <<".">>}

NameNext == (\E name \in DottedNames : get_logger(name)) \/ clear

NameSpec == LoggerInit /\ [][NameNext]_vars

\* ------------------------------------- Logger and LoggerRegistry, locking
\* The same calls with every lock_guard a step of its own: a thread that
\* needs a mutex waits until no thread holds it. The call histories of
\* LoggerSpec are not kept here.
MaxLockCalls == 3

\* The override mutators and the effective_* functions of Logger.
Mutators ==
  {"set_level", "clear_level_override", "set_sinks", "clear_sink_override",
   "set_immediate_flush", "clear_immediate_flush_override"}
Walks == {"effective_level", "effective_sinks", "effective_immediate_flush"}

restvars ==
  <<pipelinevars, logger_dropped_records_count, sink_throws, lpc, ncalls,
    loghistvars>>
treevars == <<registryvars, name_, parent_>>
configvars == <<levelvars, sinksvars, flushvars>>
outvars == <<logger_sink_failures_count, sink_calls>>
loglocals == <<lself, lrec, lsinks, do_flush, nlogs>>

\* A thread with no call in progress makes one more call.
BeginCall(t) ==
  /\ cpc[t] = "idle"
  /\ nlockcalls < MaxLockCalls
  /\ nlockcalls' = nlockcalls + 1

\* The call returns to the client.
Return(t) ==
  /\ cpc' = [cpc EXCEPT ![t] = "idle"]
  /\ cop' = [cop EXCEPT ![t] = "none"]
  /\ cur' = [cur EXCEPT ![t] = NoLogger]

\* The number of prefixes get_logger(name) visits, and the Loggers the
\* get_logger calls in progress may still construct.
NSegments(name) == Cardinality({i \in 1..Len(name) : name[i] = "."}) + 1

Reserved ==
  LET n == [t \in LogThreads |->
              IF gl[t].name = <<>> THEN 0 ELSE NSegments(gl[t].name)]
  IN  Sum(n, LogThreads)

\* get_logger(name), lines 11-13: an empty name returns nullptr before the
\* registry mutex is touched.
call_get_logger(t, name) ==
  /\ BeginCall(t)
  /\ name # <<>> => nloggers + Reserved + NSegments(name) <= MaxLoggers
  /\ IF name = <<>>
     THEN UNCHANGED <<cpc, cop, gl>>
     ELSE /\ cpc' = [cpc EXCEPT ![t] = "registry_lock"]
          /\ cop' = [cop EXCEPT ![t] = "get_logger"]
          /\ gl' = [gl EXCEPT ![t] = [name |-> name, start |-> 0, prev |-> NoLogger]]
  /\ UNCHANGED <<restvars, treevars, configvars, outvars, loglocals, mutexvars,
                 cwalk, cur, guards>>

\* std::lock_guard lock(mutex_) of get_logger (line 15).
registry_lock(t) ==
  /\ cpc[t] = "registry_lock"
  /\ registry_mutex = NoThread
  /\ registry_mutex' = t
  /\ cpc' = [cpc EXCEPT ![t] = "segment"]
  /\ UNCHANGED <<restvars, treevars, configvars, outvars, loglocals, mutex_,
                 cop, cwalk, cur, guards, gl, nlockcalls>>

\* Lines 30-36: prev = current, then leave the loop or go on to the next
\* prefix.
NextSegment(t, current) ==
  LET dot == find(gl[t].name, gl[t].start)
  IN  /\ gl' = [gl EXCEPT ![t].prev = current,
                          ![t].start = IF dot = npos THEN @ ELSE dot + 1]
      /\ cpc' = [cpc EXCEPT ![t] =
                   IF dot # npos /\ dot + 1 < Len(gl[t].name)
                   THEN "segment" ELSE "registry_unlock"]

\* Lines 22-27: the next prefix is looked up or constructed.
get_logger_segment(t) ==
  /\ cpc[t] = "segment"
  /\ LET dot == find(gl[t].name, gl[t].start)
         end == IF dot = npos THEN Len(gl[t].name) ELSE dot
         g == get_or_create_locked_(Registry, SubSeq(gl[t].name, 1, end))
     IN  /\ loggers_' = g.R.loggers
         /\ nloggers' = g.R.n
         /\ name_' = g.R.name
         /\ cur' = [cur EXCEPT ![t] = g.logger]
         /\ IF gl[t].prev # NoLogger
            THEN cpc' = [cpc EXCEPT ![t] = "set_parent"] /\ UNCHANGED gl
            ELSE NextSegment(t, g.logger)
  /\ UNCHANGED <<restvars, held, parent_, configvars, outvars, loglocals,
                 mutexvars, cop, cwalk, guards, nlockcalls>>

\* current->set_parent(prev) (line 28): Logger::set_parent locks the
\* Logger's mutex_ while the registry mutex is held.
locked_set_parent(t) ==
  /\ cpc[t] = "set_parent"
  /\ mutex_[cur[t]] = NoThread
  /\ parent_' = set_parent(Registry, cur[t], gl[t].prev).parent
  /\ NextSegment(t, cur[t])
  /\ UNCHANGED <<restvars, registryvars, name_, configvars, outvars,
                 loglocals, mutexvars, cop, cwalk, cur, guards, nlockcalls>>

\* return prev (line 38): the registry mutex is released and the client
\* keeps the shared_ptr.
registry_unlock(t) ==
  /\ cpc[t] = "registry_unlock"
  /\ registry_mutex' = NoThread
  /\ held' = held \cup {gl[t].prev}
  /\ gl' = [gl EXCEPT ![t] = NoGetLogger]
  /\ Return(t)
  /\ UNCHANGED <<restvars, loggers_, nloggers, name_, parent_, configvars,
                 outvars, loglocals, mutex_, cwalk, guards, nlockcalls>>

call_clear(t) ==
  /\ BeginCall(t)
  /\ cpc' = [cpc EXCEPT ![t] = "clear"]
  /\ cop' = [cop EXCEPT ![t] = "clear"]
  /\ UNCHANGED <<restvars, treevars, configvars, outvars, loglocals, mutexvars,
                 cwalk, cur, guards, gl>>

\* LoggerRegistry::clear() (lines 41-44), one critical section of the
\* registry mutex.
locked_clear(t) ==
  /\ cpc[t] = "clear"
  /\ registry_mutex = NoThread
  /\ loggers_' = <<>>
  /\ Return(t)
  /\ UNCHANGED <<restvars, nloggers, held, name_, parent_, configvars, outvars,
                 loglocals, mutexvars, cwalk, guards, gl, nlockcalls>>

\* A client calls a set_* or clear_* mutator of a Logger it holds.
call_mutator(t, l, f) ==
  /\ BeginCall(t)
  /\ l \in held
  /\ cpc' = [cpc EXCEPT ![t] = "mutate"]
  /\ cop' = [cop EXCEPT ![t] = f]
  /\ cur' = [cur EXCEPT ![t] = l]
  /\ UNCHANGED <<restvars, treevars, configvars, outvars, loglocals, mutexvars,
                 cwalk, guards, gl>>

\* The body of the mutator (logger.cpp lines 14-23, 46-56, 115-124), one
\* critical section of the Logger's mutex_.
mutate(t) ==
  /\ cpc[t] = "mutate"
  /\ mutex_[cur[t]] = NoThread
  /\ LET l == cur[t]
     IN  \/ /\ cop[t] = "set_level"
            /\ \E level \in Level : level_' = [level_ EXCEPT ![l] = level]
            /\ level_overridden_' = [level_overridden_ EXCEPT ![l] = TRUE]
            /\ UNCHANGED <<sinksvars, flushvars>>
         \/ /\ cop[t] = "clear_level_override"
            /\ level_overridden_' = [level_overridden_ EXCEPT ![l] = FALSE]
            /\ UNCHANGED <<level_, sinksvars, flushvars>>
         \/ /\ cop[t] = "set_sinks"
            /\ \E sinks \in SinkLists : sinks_' = [sinks_ EXCEPT ![l] = sinks]
            /\ sinks_overridden_' = [sinks_overridden_ EXCEPT ![l] = TRUE]
            /\ UNCHANGED <<levelvars, flushvars>>
         \/ /\ cop[t] = "clear_sink_override"
            /\ sinks_overridden_' = [sinks_overridden_ EXCEPT ![l] = FALSE]
            /\ sinks_' = [sinks_ EXCEPT ![l] = <<>>]
            /\ UNCHANGED <<levelvars, flushvars>>
         \/ /\ cop[t] = "set_immediate_flush"
            /\ \E enabled \in BOOLEAN :
                 immediate_flush_' = [immediate_flush_ EXCEPT ![l] = enabled]
            /\ immediate_flush_overridden_' =
                 [immediate_flush_overridden_ EXCEPT ![l] = TRUE]
            /\ UNCHANGED <<levelvars, sinksvars>>
         \/ /\ cop[t] = "clear_immediate_flush_override"
            /\ immediate_flush_overridden_' =
                 [immediate_flush_overridden_ EXCEPT ![l] = FALSE]
            /\ UNCHANGED <<levelvars, sinksvars, immediate_flush_>>
  /\ Return(t)
  /\ UNCHANGED <<restvars, treevars, outvars, loglocals, mutexvars, cwalk,
                 guards, gl, nlockcalls>>

\* A client calls effective_level, effective_sinks or
\* effective_immediate_flush of a Logger it holds.
call_effective(t, l, w) ==
  /\ BeginCall(t)
  /\ l \in held
  /\ cpc' = [cpc EXCEPT ![t] = "lock"]
  /\ cop' = [cop EXCEPT ![t] = w]
  /\ cwalk' = [cwalk EXCEPT ![t] = w]
  /\ cur' = [cur EXCEPT ![t] = l]
  /\ UNCHANGED <<restvars, treevars, configvars, outvars, loglocals, mutexvars,
                 guards, gl>>

\* l->log(record) (line 77).
call_log(t, l, level) ==
  /\ BeginCall(t)
  /\ l \in held
  /\ nlogs[t] < MaxLogs
  /\ nlogs' = [nlogs EXCEPT ![t] = @ + 1]
  /\ lself' = [lself EXCEPT ![t] = l]
  /\ lrec' = [lrec EXCEPT ![t] = [id |-> <<t, nlogs[t] + 1>>, level |-> level]]
  /\ lsinks' = [lsinks EXCEPT ![t] = <<>>]
  /\ do_flush' = [do_flush EXCEPT ![t] = FALSE]
  /\ sink_calls' = [sink_calls EXCEPT ![t] = <<>>]
  /\ cpc' = [cpc EXCEPT ![t] = "lock"]
  /\ cop' = [cop EXCEPT ![t] = "log"]
  /\ cwalk' = [cwalk EXCEPT ![t] = "effective_level"]
  /\ cur' = [cur EXCEPT ![t] = l]
  /\ UNCHANGED <<restvars, treevars, configvars, logger_sink_failures_count,
                 mutexvars, guards, gl>>

\* The override flag an effective_* function tests.
Overridden(w, l) ==
  CASE w = "effective_level" -> level_overridden_[l]
    [] w = "effective_sinks" -> sinks_overridden_[l]
    [] w = "effective_immediate_flush" -> immediate_flush_overridden_[l]

\* What log() keeps of the value an effective_* call returns from Logger l:
\* the filter's verdict (line 79), sinks (line 83) or do_flush (line 84).
WalkResult(t, l) ==
  IF cop[t] # "log" THEN UNCHANGED <<cwalk, lsinks, do_flush>>
  ELSE CASE cwalk[t] = "effective_level" ->
              /\ cwalk' = [cwalk EXCEPT ![t] =
                             IF lrec[t].level < level_[l] THEN "filtered" ELSE @]
              /\ UNCHANGED <<lsinks, do_flush>>
         [] cwalk[t] = "effective_sinks" ->
              /\ lsinks' = [lsinks EXCEPT ![t] =
                              IF sinks_overridden_[l] THEN sinks_[l] ELSE <<>>]
              /\ UNCHANGED <<cwalk, do_flush>>
         [] cwalk[t] = "effective_immediate_flush" ->
              /\ do_flush' = [do_flush EXCEPT ![t] = immediate_flush_[l]]
              /\ UNCHANGED <<cwalk, lsinks>>

\* Mutant: the lock_guard is destroyed before the parent is called.
walk_lock_child_released(t) ==
  /\ cpc[t] = "lock"
  /\ mutex_[cur[t]] = NoThread
  /\ guards' = [guards EXCEPT ![t] = Append(@, cur[t])]
  /\ LET l == cur[t]
     IN  IF Overridden(cwalk[t], l) \/ parent(l) = NoLogger
         THEN /\ mutex_' = [mutex_ EXCEPT ![cur[t]] = t]
              /\ cpc' = [cpc EXCEPT ![t] = "unwind"]
              /\ WalkResult(t, l)
              /\ UNCHANGED cur
         ELSE /\ cur' = [cur EXCEPT ![t] = parent(l)]
              /\ UNCHANGED <<mutex_, cpc, cwalk, lsinks, do_flush>>
  /\ UNCHANGED <<restvars, treevars, configvars, outvars, lself, lrec, nlogs,
                 registry_mutex, cop, gl, nlockcalls>>

\* One activation of an effective_* function (lines 25-38, 58-71, 126-139):
\* lock this Logger's mutex_, return its own value if it is overridden or
\* there is no parent, else call the parent with the lock_guard still on
\* the stack.
walk_lock(t) ==
  /\ cpc[t] = "lock"
  /\ mutex_[cur[t]] = NoThread
  /\ mutex_' = [mutex_ EXCEPT ![cur[t]] = t]
  /\ guards' = [guards EXCEPT ![t] = Append(@, cur[t])]
  /\ LET l == cur[t]
     IN  IF Overridden(cwalk[t], l) \/ parent(l) = NoLogger
         THEN /\ cpc' = [cpc EXCEPT ![t] = "unwind"]
              /\ WalkResult(t, l)
              /\ UNCHANGED cur
         ELSE /\ cur' = [cur EXCEPT ![t] = parent(l)]
              /\ UNCHANGED <<cpc, cwalk, lsinks, do_flush>>
  /\ UNCHANGED <<restvars, treevars, configvars, outvars, lself, lrec, nlogs,
                 registry_mutex, cop, gl, nlockcalls>>

\* An activation returns and its lock_guard is destroyed, innermost first;
\* when the outermost has returned, log() goes on to its next line and a
\* call made by the client returns.
walk_unlock(t) ==
  /\ cpc[t] = "unwind"
  /\ LET n == Len(guards[t])
     IN  /\ mutex_' = [mutex_ EXCEPT ![guards[t][n]] = NoThread]
         /\ guards' = [guards EXCEPT ![t] = SubSeq(@, 1, n - 1)]
         /\ IF n > 1 THEN UNCHANGED <<cpc, cop, cwalk, cur>>
            ELSE IF cop[t] = "log" /\ cwalk[t] # "filtered"
            THEN /\ cpc' = [cpc EXCEPT ![t] =
                              IF cwalk[t] = "effective_immediate_flush"
                              THEN "deliver" ELSE "lock"]
                 /\ cwalk' = [cwalk EXCEPT ![t] =
                                IF @ = "effective_level" THEN "effective_sinks"
                                ELSE "effective_immediate_flush"]
                 /\ cur' = [cur EXCEPT ![t] = lself[t]]
                 /\ UNCHANGED cop
            ELSE /\ Return(t)
                 /\ cwalk' = [cwalk EXCEPT ![t] = "none"]
  /\ UNCHANGED <<restvars, treevars, configvars, outvars, loglocals,
                 registry_mutex, gl, nlockcalls>>

\* The loop over sinks of log() (lines 86-95): write(), flush() if do_flush,
\* a throw from either caught and counted; the calls made and the number of
\* throws.
RECURSIVE sink_loop(_, _, _)
sink_loop(sinks, flush, id) ==
  IF sinks = <<>> THEN [calls |-> <<>>, failures |-> 0]
  ELSE LET s == Head(sinks)
           w == [sink |-> s, op |-> "write", rec |-> id]
           f == [sink |-> s, op |-> "flush", rec |-> id]
           made == IF sink_throws[s] # "write" /\ flush THEN <<w, f>> ELSE <<w>>
           thrown == IF \/ sink_throws[s] = "write"
                        \/ sink_throws[s] = "flush" /\ flush
                     THEN 1 ELSE 0
           rest == sink_loop(Tail(sinks), flush, id)
       IN  [calls |-> made \o rest.calls, failures |-> thrown + rest.failures]

\* Lines 86-95 hold no Logger or registry mutex; log() returns.
log_deliver(t) ==
  /\ cpc[t] = "deliver"
  /\ LET d == sink_loop(lsinks[t], do_flush[t], lrec[t].id)
     IN  /\ sink_calls' = [sink_calls EXCEPT ![t] = d.calls]
         /\ logger_sink_failures_count' =
              [logger_sink_failures_count EXCEPT ![lself[t]] = @ + d.failures]
  /\ lsinks' = [lsinks EXCEPT ![t] = <<>>]
  /\ Return(t)
  /\ cwalk' = [cwalk EXCEPT ![t] = "none"]
  /\ UNCHANGED <<restvars, treevars, configvars, lself, lrec, do_flush, nlogs,
                 mutexvars, guards, gl, nlockcalls>>

LockCall(t) ==
  \/ \E name \in Names : call_get_logger(t, name)
  \/ call_clear(t)
  \/ \E l \in Loggers, f \in Mutators : call_mutator(t, l, f)
  \/ \E l \in Loggers, w \in Walks : call_effective(t, l, w)
  \/ \E l \in Loggers, level \in Level : call_log(t, l, level)

LockStep(t) ==
  \/ LockCall(t)
  \/ registry_lock(t) \/ get_logger_segment(t) \/ locked_set_parent(t)
  \/ registry_unlock(t) \/ locked_clear(t) \/ mutate(t)
  \/ walk_lock(t) \/ walk_unlock(t) \/ log_deliver(t)

LockNext == \E t \in LogThreads : LockStep(t)

LockInit ==
  /\ AsyncSinkInit({NoCalls}, FALSE)
  /\ capacity = 1 /\ max_batch = 1 /\ policy = Block
  /\ RegistryInit({NeverThrows})

\* Every thread inside a call goes on running: a thread that waits for a
\* mutex takes it once the mutex stays free.
LockSpec ==
  LockInit /\ [][LockNext]_vars /\ \A t \in LogThreads : WF_vars(LockStep(t))

\* ------------------------------------------------------------- helpers
Range(seq) == {seq[i] : i \in 1..Len(seq)}

\* The record of producer p's current (or last) write() call.
CurrentRecord(p) == <<p, nwrites[p]>>

\* Producer p's enqueue() call returns in this step.
EnqueueCompletes(p) == ppc[p] \in {"idle", "blocked"} /\ ppc'[p] = "count"

\* Producer p's write() call returns in this step.
WriteReturns(p) == ppc[p] = "count" /\ ppc'[p] = "idle"

\* Flusher f's flush() call returns in this step.
FlushReturns(f) == fpc[f] \in {"lock", "waiting"} /\ fpc'[f] = "idle"

\* Record r was passed to the wrapped sink's write() and the wrapped sink's
\* flush() was called after that.
DeliveredAndFlushed(r) == \E i \in 1..flushed_upto : delivered[i] = r

\* ------------------------------------------------------------------ C1
\* C1: when a flush() call returns, every record that was enqueued before the
\* call began and was not evicted by DropOldest has been passed to the wrapped
\* sink's write(), with a wrapped flush() after it.
FlushBarrier ==
  [][\A f \in Flushers :
       FlushReturns(f) =>
         \A r \in snap[f] \ evicted : DeliveredAndFlushed(r)]_vars

\* ------------------------------------------------------------------ C3
\* C3: the records of one producer reach the wrapped sink's write() in the
\* order it enqueued them, whatever the policy and the batch size.
FifoPerProducer ==
  \A i, j \in 1..Len(delivered) :
    (i < j /\ delivered[i][1] = delivered[j][1]) => delivered[i][2] < delivered[j][2]

\* Two records of one producer were delivered from one batch of a two-slot
\* queue while the other producer's record was written as well.
FifoPerProducerWitness ==
  /\ capacity = 2 /\ max_batch = 2
  /\ \E i, j \in 1..Len(delivered) : i < j /\ delivered[i][1] = delivered[j][1]
  /\ \E p \in Producers : nwrites[p] = 2 /\ CurrentRecord(p) \in Range(delivered)
  /\ \A p \in Producers : nwrites[p] > 0

\* ------------------------------------------------------------------ C5
\* C5: under DropNewest an enqueue on a full, not stopped queue returns
\* enqueued=false, dropped=1 and leaves the ring (records, order, count) as it was.
DropNewestRejects ==
  [][\A p \in Producers :
       (EnqueueCompletes(p) /\ policy = DropNewest /\ count >= capacity
          /\ ~q_stop_requested)
       => /\ res'[p] = EnqueueResult(FALSE, 1)
          /\ Contents(Ring)' = Contents(Ring)
          /\ UNCHANGED qvars]_vars

\* A DropNewest enqueue has just been rejected by a full two-slot queue.
DropNewestRejectsWitness ==
  \E p \in Producers :
    /\ policy = DropNewest /\ capacity = 2 /\ count = capacity
    /\ ppc[p] = "count" /\ res[p] = EnqueueResult(FALSE, 1)
    /\ CurrentRecord(p) \notin enqueued
    /\ ~q_stop_requested

\* ------------------------------------------------------------------ C6
\* C6: under DropOldest an enqueue on a full, not stopped queue evicts exactly
\* the oldest record, appends the incoming one as the newest and returns
\* enqueued=true, dropped=1; the count stays at the capacity and the survivors
\* keep their order.
DropOldestEvicts ==
  [][\A p \in Producers :
       (EnqueueCompletes(p) /\ policy = DropOldest /\ count >= capacity
          /\ ~q_stop_requested)
       => /\ res'[p] = EnqueueResult(TRUE, 1)
          /\ count' = capacity
          /\ Contents(Ring)' = Append(Tail(Contents(Ring)), CurrentRecord(p)')
          /\ evicted' = evicted \cup {Head(Contents(Ring))}]_vars

\* A DropOldest enqueue has just evicted the oldest record of a full two-slot
\* queue, and one older record survives.
DropOldestEvictsWitness ==
  \E p \in Producers :
    /\ policy = DropOldest /\ capacity = 2 /\ count = capacity
    /\ ppc[p] = "count" /\ res[p] = EnqueueResult(TRUE, 1)
    /\ evicted # {}
    /\ Contents(Ring)[2] = CurrentRecord(p)

\* ------------------------------------------------------------------ C9
\* C9: the stop flags never clear, a second request_stop_() call changes
\* nothing, request_stop_() has set the queue's flag when it returns, and
\* every enqueue that runs with the flag set returns enqueued=false,
\* dropped=0 and leaves the ring as it was, under every policy.
StopIsFinal ==
  /\ []((nstops > 0 /\ opc = "idle") => q_stop_requested)
  /\ [][/\ q_stop_requested => q_stop_requested'
        /\ stop_requested => stop_requested'
        /\ (stop_requested /\ nstops' # nstops)
             => UNCHANGED <<loggervars, cfgvars, qvars, qflags, notified, genvars, cntvars,
                            flush_m, wvars, pvars, fvars, opc, stop_requested,
                            sinkvars, histvars>>
        /\ \A p \in Producers :
             (EnqueueCompletes(p) /\ q_stop_requested)
             => /\ res'[p] = EnqueueResult(FALSE, 0)
                /\ UNCHANGED <<qvars, histvars>>]_vars

\* After two request_stop_() calls an enqueue on a queue with a free slot has
\* just been refused.
StopIsFinalWitness ==
  \E p \in Producers :
    /\ nstops = 2 /\ opc = "idle" /\ q_stop_requested
    /\ policy # Block
    /\ count < capacity
    /\ ppc[p] = "count" /\ res[p] = EnqueueResult(FALSE, 0)
    /\ CurrentRecord(p) \notin enqueued

FlushReturnsEventually ==
  \A f \in Flushers :
    (fpc[f] # "idle") ~> (fpc[f] = "idle" \/ stop_requested)

\* One flush() call has returned while the other, begun on an empty queue, is
\* still blocked in its wait, and no stop was requested.
FlushReturnsEventuallyWitness ==
  \E f, g \in Flushers :
    /\ fpc[f] = "idle" /\ nflushes[f] = 1
    /\ fpc[g] = "waiting"
    /\ count = 0 /\ enqueued = {}
    /\ ~stop_requested

\* ------------------------------------------------------------------ C4
\* C4: under Block with no stop, no record is passed to the wrapped sink's
\* write() twice and every record of every write() call is eventually
\* passed to it.
AllWritesMade == \A p \in Producers : nwrites[p] = calls.writes[p]
AllDelivered ==
  \A p \in Producers : \A k \in 1..calls.writes[p] : <<p, k>> \in Range(delivered)
NoDuplicates ==
  \A i, j \in 1..Len(delivered) : i # j => delivered[i] # delivered[j]

BlockDeliversExactlyOnce ==
  /\ [](policy = Block => NoDuplicates)
  /\ (policy = Block) => <>(stop_requested \/ (AllWritesMade /\ AllDelivered))

\* Both producers made MaxWrites write() calls on a one-slot Block queue and
\* all the records were delivered.
BlockDeliversExactlyOnceWitness ==
  /\ policy = Block /\ capacity = 1
  /\ \A p \in Producers : nwrites[p] = MaxWrites
  /\ Len(delivered) = MaxWrites * Cardinality(Producers)
  /\ ~stop_requested

\* ------------------------------------------------------------------ C7
\* C7: under Block no enqueue completes or inserts anything in a step taken
\* from a full, not stopped queue; a blocked enqueue that completes without a
\* stop returns enqueued=true, dropped=0 with its record the newest in the
\* queue; and, with no stop, every blocked enqueue eventually completes so.
BlockWaitsForSpace ==
  /\ [][/\ (policy = Block /\ count >= capacity /\ ~q_stop_requested)
             => /\ \A p \in Producers : ~EnqueueCompletes(p)
                /\ enqueued' = enqueued
        /\ \A p \in Producers :
             (ppc[p] = "blocked" /\ EnqueueCompletes(p) /\ ~q_stop_requested)
             => /\ res'[p] = EnqueueResult(TRUE, 0)
                /\ Contents(Ring)' = Append(Contents(Ring), CurrentRecord(p))]_vars
  /\ \A p \in Producers :
       (ppc[p] = "blocked")
         ~> \/ /\ ppc[p] = "count" /\ res[p] = EnqueueResult(TRUE, 0)
               /\ CurrentRecord(p) \in Range(Contents(Ring))
            \/ stop_requested

\* A dequeue has freed a slot and notified a producer that is still blocked.
BlockWaitsForSpaceWitness ==
  \E p \in Producers :
    /\ policy = Block
    /\ ppc[p] = "blocked" /\ p \in notified
    /\ count < capacity
    /\ ~stop_requested

\* ------------------------------------------------------------------ C8
\* C8: a blocked producer that resumes with the stop flag set returns
\* enqueued=false, dropped=0 and leaves the ring as it was, free slot or not,
\* and a producer blocked when the stop is requested eventually resumes.
StopWakesBlockedProducer ==
  /\ [][\A p \in Producers :
          (ppc[p] = "blocked" /\ EnqueueCompletes(p) /\ q_stop_requested)
          => /\ res'[p] = EnqueueResult(FALSE, 0)
             /\ UNCHANGED <<qvars, histvars>>]_vars
  /\ \A p \in Producers :
       (ppc[p] = "blocked" /\ q_stop_requested) ~> (ppc[p] # "blocked")

\* A producer is blocked and notified, the stop flag is set and a slot is
\* free: the state in which it resumes.
StopWakesBlockedProducerWitness ==
  \E p \in Producers :
    /\ policy = Block /\ q_stop_requested
    /\ ppc[p] = "blocked" /\ p \in notified
    /\ count < capacity

\* ----------------------------------------------------------------- C11
\* The worker calls wrapped_->write() or wrapped_->flush() in this step.
WrappedWriteCalled == delivered' # delivered
WrappedFlushCalled == wpc \in {"flush", "fflush"} /\ wpc' # wpc

\* Every write() call of the workload has returned, every flush() call has
\* returned unless a stop was requested, and every record enqueued and not
\* evicted was passed to the wrapped sink's write().
AllCallsServed ==
  /\ \A p \in Producers : ppc[p] = "idle" /\ nwrites[p] = calls.writes[p]
  /\ \A f \in Flushers :
       stop_requested \/ (fpc[f] = "idle" /\ nflushes[f] = calls.flushes[f])
  /\ enqueued \subseteq Range(delivered) \cup evicted

\* C11: with a wrapped sink whose write() and flush() throw, every such call
\* adds exactly one to sink_failures_count() and nothing else does; the worker
\* goes on with the rest of its batch and ends only after a stop; in the end
\* every write() call has returned, every flush() call has returned unless a
\* stop was requested, and every enqueued record that was not evicted has
\* been passed to the wrapped sink's write().
WrappedFailuresContained ==
  /\ [][/\ WrappedWriteCalled =>
             (/\ sink_failures_count' = sink_failures_count + 1
              /\ batch' = Tail(batch)
              /\ wpc' # "done")
        /\ WrappedFlushCalled =>
             (/\ sink_failures_count' = sink_failures_count + 1
              /\ wpc' # "done")
        /\ sink_failures_count' # sink_failures_count =>
             (WrappedWriteCalled \/ WrappedFlushCalled)]_vars
  /\ [](wpc = "done" => stop_requested)
  /\ <>AllCallsServed

\* Two records of a two-record batch were passed to the throwing sink, a
\* flush() call was served after that and has returned, and each of the three
\* failed calls was counted.
WrappedFailuresContainedWitness ==
  /\ wrapped_throws /\ max_batch = 2
  /\ Len(delivered) = 2 /\ flushed_upto = 2
  /\ sink_failures_count = 3
  /\ \E f \in Flushers : nflushes[f] = 1 /\ fpc[f] = "idle"
  /\ \A p \in Producers : ppc[p] = "idle"
  /\ ~stop_requested

\* ------------------------------------------------- helpers (Logger)
\* The Logger objects that exist.
Constructed == {l \in Loggers : l <= nloggers /\ l \in Alive}

RECURSIVE AncestorsOrSelf(_)
AncestorsOrSelf(l) ==
  {l} \cup (IF parent(l) = NoLogger THEN {} ELSE AncestorsOrSelf(parent(l)))

DescendantsOrSelf(l) == {m \in Constructed : l \in AncestorsOrSelf(m)}

Occurrences(list, s) == Cardinality({i \in 1..Len(list) : list[i] = s})

\* The calls of the given kind thread t's log() call made on sink s.
CallsTo(t, s, op) ==
  Cardinality({i \in 1..Len(sink_calls[t]) :
                 sink_calls[t][i].sink = s /\ sink_calls[t][i].op = op})

\* Thread t's log() call begins (and resolves its threshold) in this step.
LogBegins(t) == nlogs'[t] # nlogs[t]

\* Thread t's log() call passed the filter and has returned.
LogDelivered(t) == lpc[t] = "idle" /\ resolved[t].passed

\* Thread t's log() call calls write() or flush() on a sink in this step.
SinkCalled(t) == sink_calls'[t] # sink_calls[t] /\ ~LogBegins(t)

\* ----------------------------------------------------------------- C12
\* C12: a sink call of Logger::log that throws adds exactly one to the
\* logger's sink_failures_count() and the loop goes on with the rest of the
\* list; a sink call that does not throw leaves the count alone; and when
\* log() has returned, write() was called for every entry of the list, once
\* per entry, whichever of the sinks throw.
SinkFailureIsolated ==
  /\ [][\A t \in LogThreads :
          SinkCalled(t) =>
            LET call == sink_calls'[t][Len(sink_calls'[t])]
                failed == sink_throws[call.sink] = call.op
            IN  /\ logger_sink_failures_count' =
                     [logger_sink_failures_count EXCEPT ![lself[t]] =
                        @ + (IF failed THEN 1 ELSE 0)]
                /\ failed => lsinks'[t] = Tail(lsinks[t])
                /\ UNCHANGED logger_dropped_records_count]_vars
  /\ [](\A t \in LogThreads :
          LogDelivered(t) =>
            \A s \in Sinks :
              CallsTo(t, s, "write") = Occurrences(resolved[t].sinks, s))

\* A log() call on the list <<s1, s2>> has returned: write() of s1 threw and
\* was counted once, and s2 received the record once.
SinkFailureIsolatedWitness ==
  \E t \in LogThreads :
    /\ LogDelivered(t)
    /\ resolved[t].sinks = <<"s1", "s2">>
    /\ sink_throws["s1"] = "write"
    /\ logger_sink_failures_count[lself[t]] = 1
    /\ CallsTo(t, "s2", "write") = 1

\* ----------------------------------------------------------------- C13
\* C13: a logger without an active level override has the effective level of
\* its parent, and the process default Info if it has no parent.
LevelInherited ==
  \A l \in Constructed :
    ~level_overridden_[l] =>
      effective_level(l) =
        (IF parent(l) # NoLogger THEN effective_level(parent(l)) ELSE Info)

\* ----------------------------------------------------------------- C14
\* C14: a logger with an active override has its own level_ as effective
\* level, and a step that changes the level override of a logger l changes
\* the effective level of no logger other than l and its descendants.
OverrideIsLocal ==
  /\ [](\A l \in Constructed :
          level_overridden_[l] => effective_level(l) = level_[l])
  /\ [][\A l \in Constructed :
          (level_'[l] # level_[l] \/ level_overridden_'[l] # level_overridden_[l])
          => \A m \in Constructed \ DescendantsOrSelf(l) :
               effective_level(m)' = effective_level(m)]_vars

\* A logger has an override that differs from the level its sibling still
\* inherits from their common parent.
OverrideIsLocalWitness ==
  \E l, m \in Constructed :
    /\ l # m
    /\ parent(l) # NoLogger /\ parent(l) = parent(m)
    /\ level_overridden_[l] /\ ~level_overridden_[m]
    /\ effective_level(l) # effective_level(m)
    /\ effective_level(m) = effective_level(parent(m))

\* ----------------------------------------------------------------- C15
\* The nearest logger with an active sink override among l and its ancestors.
SinkOverriders(l) == {m \in AncestorsOrSelf(l) : sinks_overridden_[m]}

NearestSinks(l) ==
  IF SinkOverriders(l) = {} THEN <<>>
  ELSE sinks_[CHOOSE m \in SinkOverriders(l) :
                SinkOverriders(l) \subseteq AncestorsOrSelf(m)]

\* C15: effective_sinks() is the list of the nearest logger with an active
\* sink override among the logger and its ancestors as they are at the time
\* of the call, empty if there is none; Logger::log takes this list when it
\* resolves its sinks, and writes to exactly its entries.
SinksInherited ==
  /\ [](\A l \in Constructed : effective_sinks(l) = NearestSinks(l))
  /\ [][\A t \in LogThreads :
          (lpc[t] = "sinks" /\ lpc'[t] # "sinks") =>
            lsinks'[t] = NearestSinks(lself[t])]_vars
  /\ [](\A t \in LogThreads :
          LogDelivered(t) =>
            \A s \in Sinks :
              CallsTo(t, s, "write") = Occurrences(resolved[t].sinks, s))

\* The first call of all created the logger "a.b" with its parent; a sink
\* was then added to the parent, and a record logged on "a.b", which has no
\* sink override, was written to that sink.
SinksInheritedWitness ==
  \E t \in LogThreads :
    /\ LogDelivered(t)
    /\ returned[1] = <<(<<"a", ".", "b">>), lself[t], 0>>
    /\ ~sinks_overridden_[lself[t]]
    /\ parent(lself[t]) # NoLogger
    /\ sinks_[parent(lself[t])] = <<"s2">>
    /\ CallsTo(t, "s2", "write") = 1

\* ----------------------------------------------------------------- C16
\* C16: a log() call whose record is below the logger's effective level
\* returns without calling any sink; a record at or above it goes on, and
\* when the call has returned write() was called once for every entry of the
\* resolved sink list.
LevelFilter ==
  /\ [][\A t \in LogThreads :
          LogBegins(t) =>
            IF lrec'[t].level < effective_level(lself'[t])
            THEN lpc'[t] = "idle" /\ ~resolved'[t].passed
            ELSE lpc'[t] = "sinks" /\ resolved'[t].passed]_vars
  /\ [](\A t \in LogThreads :
          /\ ~resolved[t].passed => sink_calls[t] = <<>>
          /\ LogDelivered(t) =>
               /\ Len(sink_calls[t]) >= Len(resolved[t].sinks)
               /\ \A s \in Sinks :
                    CallsTo(t, s, "write") = Occurrences(resolved[t].sinks, s))

\* A record of level Warn logged on a logger whose effective level is Warn
\* was written to the logger's sink.
LevelFilterWitness ==
  \E t \in LogThreads :
    /\ LogDelivered(t)
    /\ lrec[t].level = Warn /\ resolved[t].threshold = Warn
    /\ resolved[t].sinks # <<>>
    /\ Len(sink_calls[t]) = Len(resolved[t].sinks)

\* ----------------------------------------------------------------- C17
\* C17: a log() call whose record is below the effective level adds one to
\* the logger's dropped_records_count(); a call whose record passes the
\* filter leaves it as it was.
FilteredRecordCounted ==
  [][\A t \in LogThreads :
       LogBegins(t) =>
         logger_dropped_records_count' =
           [logger_dropped_records_count EXCEPT ![lself'[t]] =
              @ + (IF lrec'[t].level < effective_level(lself'[t]) THEN 1 ELSE 0)]]_vars

\* ----------------------------------------------------------------- C18
\* C18: effective_immediate_flush() is the logger's own value when its
\* override is active, otherwise its parent's effective value, and false for
\* a logger without a parent.
ImmediateFlushInherited ==
  \A l \in Constructed :
    effective_immediate_flush(l) =
      (IF immediate_flush_overridden_[l] THEN immediate_flush_[l]
       ELSE IF parent(l) # NoLogger THEN effective_immediate_flush(parent(l))
       ELSE FALSE)

\* ----------------------------------------------------------------- C19
\* The sink calls of a log() call on a list of sinks: write() on each, and
\* flush() after a write() that did not throw if do_flush is set.
RECURSIVE ExpectedCalls(_, _, _)
ExpectedCalls(sinks, flush, rec) ==
  IF sinks = <<>> THEN <<>>
  ELSE <<[sink |-> Head(sinks), op |-> "write", rec |-> rec]>>
       \o (IF flush /\ sink_throws[Head(sinks)] # "write"
           THEN <<[sink |-> Head(sinks), op |-> "flush", rec |-> rec]>>
           ELSE <<>>)
       \o ExpectedCalls(Tail(sinks), flush, rec)

IsPrefix(s, t) == Len(s) <= Len(t) /\ SubSeq(t, 1, Len(s)) = s

\* C19: do_flush is the logger's effective immediate-flush value; the sink
\* calls of a log() call are write() on each sink of the list, each followed
\* at once by one flush() on the same sink if do_flush is true and the write()
\* did not throw, and no flush() at all if do_flush is false.
FlushFollowsWrite ==
  /\ [][\A t \in LogThreads :
          (lpc[t] = "flag" /\ lpc'[t] # "flag") =>
            do_flush'[t] = effective_immediate_flush(lself[t])]_vars
  /\ [](\A t \in LogThreads :
          resolved[t].passed =>
            LET expected == ExpectedCalls(resolved[t].sinks, resolved[t].do_flush,
                                          lrec[t].id)
            IN  /\ IsPrefix(sink_calls[t], expected)
                /\ LogDelivered(t) => sink_calls[t] = expected
                /\ ~resolved[t].do_flush =>
                     \A s \in Sinks : CallsTo(t, s, "flush") = 0)

\* A log() call with immediate flush enabled has returned after write() and
\* flush() on the first sink of its list, then write() and flush() on the
\* second one.
FlushFollowsWriteWitness ==
  \E t \in LogThreads :
    /\ LogDelivered(t)
    /\ resolved[t].do_flush
    /\ resolved[t].sinks = <<"s1", "s2">>
    /\ sink_throws["s1"] = "never"
    /\ Len(sink_calls[t]) = 4
    /\ sink_calls[t][2] = [sink |-> "s1", op |-> "flush", rec |-> lrec[t].id]
    /\ sink_calls[t][4] = [sink |-> "s2", op |-> "flush", rec |-> lrec[t].id]

\* ----------------------------------------------------------------- C20
\* C20: between two clear() calls, get_logger calls with the same non-empty
\* name return the same non-null Logger, and no two Logger objects are
\* constructed with the same name.
OneLoggerPerName ==
  /\ \A i, j \in 1..Len(returned) :
       (returned[i][1] = returned[j][1] /\ returned[i][3] = returned[j][3])
       => returned[i][2] = returned[j][2]
  /\ \A i \in 1..Len(returned) :
       returned[i][1] # <<>> => returned[i][2] # NoLogger
  /\ \A x, y \in created : (x[1] = y[1] /\ x[3] = y[3]) => x[2] = y[2]

\* "a.b" was requested twice and "a.c" once with no clear(): three Logger
\* objects exist, one of them the common parent "a".
OneLoggerPerNameWitness ==
  /\ nclears = 0
  /\ \E i, j \in 1..Len(returned) : i < j /\ returned[i] = returned[j]
                                     /\ returned[i][1] = <<"a", ".", "b">>
  /\ \E i \in 1..Len(returned) : returned[i][1] = <<"a", ".", "c">>
  /\ Cardinality({x \in created : x[1] = <<"a">>}) = 1
  /\ nloggers = 3

\* ----------------------------------------------------------------- C21
\* The dot-delimited prefixes of a name (the name itself is one), and the
\* prefix one segment shorter than a name with a dot.
Prefixes(name) ==
  {SubSeq(name, 1, k) : k \in {i \in 1..Len(name) :
                                 i = Len(name) \/ name[i + 1] = "."}}

ShorterPrefixes(name) == Prefixes(name) \ {name}

ParentName(name) ==
  CHOOSE q \in ShorterPrefixes(name) :
    \A r \in ShorterPrefixes(name) : Len(r) <= Len(q)

\* get_logger returns in this step.
GetLoggerReturns == Len(returned') > Len(returned)

\* C21: the registry holds a logger for every dot-delimited prefix of every
\* name it holds, the parent() of each is the registry's logger for the prefix
\* one segment shorter, and none for a first segment; and after
\* get_logger(name) the registry holds name, mapped to the logger it returned.
PrefixesLinked ==
  /\ [](\A n \in DOMAIN loggers_ : \A q \in Prefixes(n) :
          /\ q \in DOMAIN loggers_
          /\ name_[loggers_[q]] = q
          /\ parent(loggers_[q]) =
               (IF ShorterPrefixes(q) = {} THEN NoLogger
                ELSE loggers_[ParentName(q)]))
  /\ [][GetLoggerReturns =>
          LET call == returned'[Len(returned')]
          IN  call[1] # <<>> =>
                (call[1] \in DOMAIN loggers_' /\ loggers_'[call[1]] = call[2])]_vars

\* "a.b.c" was requested first and "a" after it: the second call returned the
\* logger the first one had created as the parent of "a.b".
PrefixesLinkedWitness ==
  /\ Len(returned) >= 2
  /\ returned[1][1] = <<"a", ".", "b", ".", "c">>
  /\ returned[2][1] = <<"a">>
  /\ returned[2][3] = 0
  /\ <<"a", ".", "b">> \in DOMAIN loggers_
  /\ parent(loggers_[<<"a", ".", "b">>]) = returned[2][2]
  /\ parent(returned[1][2]) = loggers_[<<"a", ".", "b">>]

\* ----------------------------------------------------------------- C26
\* The loggers reached from l by following parent_ at most n times.
RECURSIVE ParentChain(_, _)
ParentChain(l, n) ==
  IF n = 0 \/ parent_[l] = NoLogger THEN {}
  ELSE {parent_[l]} \cup ParentChain(parent_[l], n - 1)

\* C26: no step changes a parent reference that is set; no logger is its own
\* ancestor; and the loggers without a parent reference are exactly those
\* whose name has no dot.
ParentsFixed ==
  /\ [][\A l \in Loggers :
          parent_[l] # NoLogger => parent_'[l] = parent_[l]]_vars
  /\ [](\A l \in 1..nloggers :
          /\ l \notin ParentChain(l, MaxLoggers)
          /\ parent_[l] = NoLogger <=> ShorterPrefixes(name_[l]) = {})

\* "a.b.c" was requested and then "a.b", so that set_parent ran a second time
\* on the logger "a.b", whose parent is still the logger "a".
ParentsFixedWitness ==
  /\ Len(returned) >= 2
  /\ returned[1][1] = <<"a", ".", "b", ".", "c">>
  /\ returned[2][1] = <<"a", ".", "b">>
  /\ returned[2][3] = 0
  /\ nclears = 0
  /\ parent_[returned[2][2]] = loggers_[<<"a">>]
  /\ parent_[returned[1][2]] = returned[2][2]


\* ------------------------------------------------------------------ C25
\* C25: in every reachable state of the queue, whatever the policy and
\* however enqueue, dequeue_batch, request_stop and kick_for_flush
\* interleave, count_ is at least 0 and at most capacity_.
CountWithinCapacity == 0 <= count /\ count <= capacity

\* A DropOldest queue of the largest capacity is full after an eviction.
CountWithinCapacityWitness ==
  /\ policy = DropOldest
  /\ capacity = MaxCapacity
  /\ count = capacity
  /\ evicted # {}


\* ------------------------------------------------------------------ C23
\* C23: when the drain thread has terminated, every record that was
\* enqueued and not evicted by DropOldest has been passed to the wrapped
\* sink's write(), nothing is left in the queue or in the batch, and the
\* wrapped sink's flush() has been called after the last delivery.
NoRecordLostOnShutdown ==
  wpc = "done" =>
    /\ \A r \in enqueued \ evicted : r \in Range(delivered)
    /\ count = 0 /\ batch = <<>>
    /\ flushed_upto = Len(delivered)

\* The drain thread has terminated after delivering a record of a queue
\* that evicted another one.
NoRecordLostOnShutdownWitness ==
  /\ wpc = "done"
  /\ enqueued \ evicted # {}
  /\ evicted # {}
  /\ flushed_upto = Len(delivered)


\* ------------------------------------------------------------------ C24
\* C24: under DropNewest and DropOldest no write() call ever waits on
\* cv_not_full_, and every write() call returns even if the drain thread
\* takes no further step and the queue stays full; a write() can wait for
\* a free slot only under Block.
WriteNeverWaitsUnlessBlock ==
  /\ [](\A p \in Producers : ppc[p] = "blocked" => policy = Block)
  /\ \A p \in Producers :
       (policy # Block /\ ppc[p] # "idle") ~> ppc[p] = "idle"

\* A write() has returned from a full DropNewest or DropOldest queue that
\* the drain thread has never dequeued from.
WriteNeverWaitsUnlessBlockWitness ==
  /\ policy # Block
  /\ count = capacity
  /\ wpc \in {"wait", "waiting"} /\ delivered = <<>>
  /\ dropped_records_count > 0
  /\ \A p \in Producers : ppc[p] = "idle"


\* ------------------------------------------------------------------ C27
\* C27: when a flush() call returns, every record that was enqueued before
\* that return, also one enqueued while the call was waiting, and that was
\* not evicted by DropOldest has been passed to the wrapped sink's write(),
\* with a wrapped flush() after it.
FlushCoversEnqueuedBeforeReturn ==
  [][\A f \in Flushers :
       FlushReturns(f) =>
         \A r \in enqueued \ evicted : DeliveredAndFlushed(r)]_vars


\* ------------------------------------------------------------------ C22
\* C22: once stop is requested, every flush() call that took its generation
\* while the drain thread had not yet terminated eventually returns.
FlushReturnsAfterStop ==
  \A f \in Flushers :
    (stop_requested /\ fpc[f] # "idle" /\ wpc # "done") ~> fpc[f] = "idle"


\* ------------------------------------------------------------------ C30
\* The drain thread publishes a new value of flush_done_gen_.
Publishes == flush_done_gen' # flush_done_gen

LockedBy(t) == {l \in Loggers : mutex_[l] = t}

\* C28: no thread ever holds the mutex_ of two Loggers at the same time.
OneLoggerMutexPerThread == \A t \in LogThreads : Cardinality(LockedBy(t)) <= 1

\* ------------------------------------------------------------------ C29
\* Thread t waits for a mutex that thread u holds.
WaitsFor(t, u) ==
  \/ cpc[t] \in {"registry_lock", "clear"} /\ registry_mutex = u
  \/ cpc[t] \in {"set_parent", "mutate", "lock"} /\ mutex_[cur[t]] = u

\* No set of threads waits in a circle: in every set of threads some thread
\* waits for none of the set.
NoWaitCycle ==
  \A S \in SUBSET LogThreads \ {{}} :
    \E t \in S : \A u \in S : ~WaitsFor(t, u)

\* C29: whatever calls to effective_*, the set_* and clear_* mutators, log(),
\* get_logger() and clear() the threads interleave, no cycle of threads
\* waiting for Logger or registry mutexes is ever reached and every call
\* that has begun returns.
LoggerCallsDeadlockFree ==
  /\ []NoWaitCycle
  /\ \A t \in LogThreads : (cpc[t] # "idle") ~> (cpc[t] = "idle")

\* A thread waits for a Logger mutex held by a thread that is inside an
\* effective_* call with two Loggers locked.
LoggerCallsDeadlockFreeWitness ==
  \E t, u \in LogThreads :
    /\ t # u
    /\ WaitsFor(u, t)
    /\ Len(guards[t]) = 2
    /\ cpc[u] \in {"set_parent", "mutate", "lock"}


\* ------------------------------------------------------------------ C38
\* The slots of the ring that are counted: count_ slots from head_ on, in
\* circular order.
CountedSlots == {(head + k) % capacity : k \in 0..(count - 1)}

\* C38: in every reachable state tail_ = (head_ + count_) mod capacity_,
\* head_ and tail_ are below capacity_, and a slot of buffer_ holds a record
\* exactly when it is one of the count_ slots starting at head_.
RingWellFormed ==
  /\ tail = (head + count) % capacity
  /\ head \in 0..(capacity - 1)
  /\ tail \in 0..(capacity - 1)
  /\ \A i \in 0..(capacity - 1) : buffer[i] # NoRecord <=> i \in CountedSlots

\* A full two-slot ring that has wrapped around: its oldest record is in
\* the last slot.
RingWellFormedWitness ==
  /\ capacity = 2
  /\ head = 1 /\ tail = 1 /\ count = 2
  /\ buffer[0] # NoRecord /\ buffer[1] # NoRecord

\* ------------------------------------------------------------------ C33
\* Producer p enters enqueue from write().
EnqueueBegins(p) == ppc[p] = "idle" /\ ppc'[p] # "idle"

\* C33: an enqueue on a queue that is not full and not stopped returns at
\* once with enqueued = true and dropped = 0 under every policy; the record
\* becomes the newest element and count_ grows by one.
NonFullEnqueueSucceeds ==
  [][\A p \in Producers :
       (EnqueueBegins(p) /\ ~q_stop_requested /\ count < capacity) =>
         /\ ppc'[p] = "count"
         /\ res'[p] = EnqueueResult(TRUE, 0)
         /\ count' = count + 1
         /\ buffer'[(head' + count' - 1) % capacity] = <<p, nwrites'[p]>>
         /\ \A k \in 0..(count - 1) :
              buffer'[(head' + k) % capacity] = buffer[(head + k) % capacity]]_vars

\* Under DropNewest a record was accepted without a drop into a two-slot
\* queue that held one record and is now full.
NonFullEnqueueSucceedsWitness ==
  \E p \in Producers :
    /\ policy = DropNewest
    /\ capacity = 2 /\ count = 2
    /\ ppc[p] = "count"
    /\ res[p] = EnqueueResult(TRUE, 0)
    /\ buffer[(head + 1) % capacity] = <<p, nwrites[p]>>

\* ------------------------------------------------------------------ C32
\* The worker is at a dequeue_batch call.
AtDequeue == wpc \in {"dequeue", "fdequeue"}

\* C32: dequeue_batch(out, N) never waits; it moves the min(count_, N)
\* oldest records to the end of out, oldest first, leaves the other records
\* in their order, and on an empty queue, stopped or not, it changes
\* nothing and returns 0.
DequeueBatchTakesOldest ==
  /\ [](AtDequeue => ENABLED (WorkerDequeue \/ WorkerFinalDequeue))
  /\ [][(AtDequeue /\ wpc' # wpc) =>
          LET n == IF count < max_batch THEN count ELSE max_batch
              queued == Contents(Ring)
          IN  /\ batch' = batch \o SubSeq(queued, 1, n)
              /\ Contents(Ring)' = SubSeq(queued, n + 1, count)
              /\ count' = count - n
              /\ count = 0 => UNCHANGED <<qvars, batch>>]_vars

\* One of two queued records was taken by a call with N = 1; the newer one
\* is still queued.
DequeueBatchTakesOldestWitness ==
  /\ capacity = 2 /\ max_batch = 1
  /\ wpc = "write"
  /\ Len(batch) = 1 /\ count = 1
  /\ enqueued = {batch[1], buffer[head]}


\* ------------------------------------------------------------------ C37
\* write() calls begun, write() calls in progress, and the records the
\* pipeline accounts for: passed to the wrapped sink, queued, in the
\* worker's batch, or counted in dropped_records_count_.
WritesBegun == Sum(nwrites, Producers)
WritesInProgress == Cardinality({p \in Producers : ppc[p] # "idle"})
WritesCompleted == WritesBegun - WritesInProgress
Accounted == Len(delivered) + count + Len(batch) + dropped_records_count

\* C37: at every point the number of completed write() calls equals the
\* records passed to the wrapped sink plus those queued or in the worker's
\* batch plus dropped_records_count_.
WritesAccountedAtEveryPoint == WritesCompleted = Accounted

\* C37, amended: the equality holds whenever no write() call is in
\* progress; while calls are in progress the accounted records lie between
\* the completed and the begun calls, a call counting from its enqueue on
\* when the record is accepted and from its return on when it is dropped.
WritesAccountedWhenIdle ==
  /\ WritesCompleted <= Accounted
  /\ Accounted <= WritesBegun
  /\ WritesInProgress = 0 => WritesCompleted = Accounted

\* All three write() calls have returned: one record was delivered, one is
\* queued and one was dropped.
WritesAccountedWhenIdleWitness ==
  /\ WritesInProgress = 0
  /\ WritesBegun = 3
  /\ Len(delivered) = 1 /\ count = 1 /\ dropped_records_count = 1

\* ------------------------------------------------------------------ C34
\* The worker is blocked in cv_not_empty_.wait and no notification is on
\* its way.
WorkerBlocked == wpc = "waiting" /\ Worker \notin notified

\* C34: the worker is blocked only while the queue is empty, no stop is
\* requested and every flush request has been served
\* (flush_request_gen_ = flush_done_gen_).
WorkerBlockedOnlyWhenIdle ==
  WorkerBlocked =>
    /\ count = 0
    /\ ~q_stop_requested
    /\ flush_request_gen = flush_done_gen

\* C34, amended: the worker is blocked only while the queue is empty, the
\* queue is not stopped and no kick is pending; a flush request can be
\* unserved then only while its flush() call has taken its generation and
\* has not yet called kick_for_flush.
WorkerBlockedOnlyBeforeKick ==
  WorkerBlocked =>
    /\ count = 0
    /\ ~q_stop_requested
    /\ ~flush_kick
    /\ \A f \in Flushers :
         (fpc[f] # "idle" /\ gen[f] > flush_done_gen) => fpc[f] = "kick"

\* The worker has served one flush request and is blocked again while a
\* second flush() call has taken generation 2 and not yet kicked.
WorkerBlockedOnlyBeforeKickWitness ==
  /\ WorkerBlocked
  /\ flush_done_gen = 1
  /\ flush_request_gen = 2
  /\ \E f \in Flushers : fpc[f] = "kick"

\* ------------------------------------------------------------------ C31
\* C31: while no stop is requested, a flush() call returns only after a
\* wrapped flush() that began after the call took its generation: the
\* latest wrapped flush() began when flush_request_gen_ was at least the
\* generation of the returning call.
FlushReleasedByLaterWrappedFlush ==
  [][\A f \in Flushers :
       (FlushReturns(f) /\ ~stop_requested) => gen_at_wrapped_flush >= gen[f]]_vars

\* Two flush() calls have returned, the latest wrapped flush() having begun
\* when both had taken their generations; no stop was requested.
FlushReleasedByLaterWrappedFlushWitness ==
  /\ \A f \in Flushers : fpc[f] = "idle" /\ nflushes[f] = 1
  /\ flush_done_gen = 2 /\ gen_at_wrapped_flush = 2
  /\ sink_failures_count = 0 /\ last_seen_flush_gen = 2
  /\ ~stop_requested

\* ----------------------------------------------------------------- C36
\* C36: add_sink(s) on a logger without an active sink override makes its
\* effective_sinks() exactly [s], whatever it inherited from its parent
\* before; on a logger with an active override effective_sinks() becomes the
\* previous list followed by s. In both cases the override is active
\* afterwards.
AddSinkAppendsAndOverrides ==
  [][\A l \in Loggers, sink \in Sinks :
       add_sink(l, sink) =>
         /\ sinks_overridden_'[l]
         /\ effective_sinks(l)' =
              IF sinks_overridden_[l] THEN Append(effective_sinks(l), sink)
              ELSE <<sink>>]_vars

\* A logger whose parent gives the list [s1] has had s2 added: its own list
\* is [s2] and the parent's s1 is no longer used.
AddSinkAppendsAndOverridesWitness ==
  \E l \in Constructed :
    /\ parent(l) # NoLogger
    /\ effective_sinks(parent(l)) = <<"s1">>
    /\ sinks_overridden_[l]
    /\ effective_sinks(l) = <<"s2">>

\* ----------------------------------------------------------------- C35
\* The sinks whose write() thread t's log() call has called, in call order.
RECURSIVE WriteTargets(_)
WriteTargets(calls_) ==
  IF calls_ = <<>> THEN <<>>
  ELSE (IF Head(calls_).op = "write" THEN <<Head(calls_).sink>> ELSE <<>>)
       \o WriteTargets(Tail(calls_))

\* The sinks thread t's log() call has still to call write() on.
WritesPending(t) ==
  IF lpc[t] = "write" THEN lsinks[t]
  ELSE IF lpc[t] = "flush" THEN Tail(lsinks[t])
  ELSE <<>>

\* A set_sinks, add_sink or clear_sink_override call runs in this step.
SinksReconfigured == sinks_' # sinks_ \/ sinks_overridden_' # sinks_overridden_

LogHoldsNoMutexInSinkCalls ==
  \A t \in LogThreads :
    cpc[t] = "deliver" => LockedBy(t) = {} /\ registry_mutex # t /\ guards[t] = <<>>

\* A log() call on a logger with a parent is at its loop over a list that is
\* not empty, its three effective_* walks done.
LogHoldsNoMutexInSinkCallsWitness ==
  \E t \in LogThreads :
    cpc[t] = "deliver" /\ lsinks[t] # <<>> /\ parent(lself[t]) # NoLogger

\* ----------------------------------------------------------------- C39
\* Thread t's effective_level() walk reaches the logger that answers in this
\* step: the one with an active override, or the one without a parent.
EffectiveLevelAnswers(t) ==
  cpc[t] = "lock" /\ cwalk[t] = "effective_level" /\ cpc'[t] = "unwind"

\* C39: the value an effective_level() call returns is the value that the
\* override states of the logger and of its whole ancestor chain give
\* together at one instant of the call, the one at which the answering
\* logger is read: from the moment a logger of the chain has been read until
\* the call returns, no set_level or clear_level_override changes it.
EffectiveLevelIsConsistent ==
  /\ [][\A t \in LogThreads :
          EffectiveLevelAnswers(t) =>
            level_[cur[t]] = effective_level(Head(guards'[t]))]_vars
  /\ [][\A t \in LogThreads :
          \A i \in 1..Len(guards[t]) :
            /\ level_'[guards[t][i]] = level_[guards[t][i]]
            /\ level_overridden_'[guards[t][i]] = level_overridden_[guards[t][i]]]_vars

\* An effective_level() call on a logger without an override has got its
\* answer from the parent while a set_level or clear_level_override call of
\* another thread on the logger it started from waits for the mutex.
EffectiveLevelIsConsistentWitness ==
  \E t, u \in LogThreads :
    /\ cpc[t] = "unwind"
    /\ cop[t] = "effective_level"
    /\ Len(guards[t]) = 2
    /\ cpc[u] = "mutate"
    /\ cop[u] \in {"set_level", "clear_level_override"}
    /\ cur[u] = guards[t][1]

\* ----------------------------------------------------------------- C40
\* C40: get_logger of a non-empty name, a name with a leading, trailing or
\* doubled dot included, returns a non-null logger whose name() is the name
\* requested; get_logger of the empty name returns null and constructs no
\* Logger.
GetLoggerReturnsRequestedName ==
  /\ [](\A i \in 1..Len(returned) :
          LET name == returned[i][1]
              logger == returned[i][2]
          IN  IF name = <<>> THEN logger = NoLogger
              ELSE logger # NoLogger /\ name_[logger] = name)
  /\ [][get_logger(<<>>) => UNCHANGED <<nloggers, loggers_, created>>]_vars

====
